---- MODULE Spec2Model ----
(***************************************************************************)
(* Session-aware polling state machine of the IRM slot checker            *)
(* (src/src/main.py): IRMSlotChecker.run drives check_availability, which *)
(* issues the availability request, re-logs in once on 401/403, retries,  *)
(* normalises the body and notifies.  The HTTP server, the Authenticator  *)
(* and the interrupt signal are the environment.                          *)
(***************************************************************************)
EXTENDS Integers, Sequences, FiniteSets, TLC

\* ---------------------------------------------------------------- bounds
MaxGen == 1          \* credential sets are told apart by a tag in 0..MaxGen
MaxCount == 2        \* largest availabilityCount the server reports
MaxAppts == 1        \* longest appointments list in a response body
PollInterval == 1    \* the configured POLL_INTERVAL_SECONDS
MaxJitter == 2       \* largest configured POLL_INTERVAL_JITTER_SECONDS
MaxCandidates == 2   \* longest list of exams or locations in a response
MaxCycles == 2       \* cycles of the legacy loop that are followed

\* ------------------------------------------------------- credential sets
Gens == 0..MaxGen

\* value of one cookie: which field it is and which credential set it is from
CookieVal(n, g) == [name |-> n, gen |-> g]
EmptyVal == [name |-> "", gen |-> 0]

\* the SessionCookies object a login returns for credential set g
SessionCookies(g) ==
    [session_key      |-> CookieVal("SessionKey", g),
     user_session_key |-> CookieVal("UserSessionKey", g),
     aspnet_cookies   |-> CookieVal(".AspNet.Cookies", g)]

\* a SessionCookies object whose cookie blob is empty
InvalidCookies(g) == [SessionCookies(g) EXCEPT !.aspnet_cookies = EmptyVal]

NoCookies == [session_key |-> EmptyVal, user_session_key |-> EmptyVal,
              aspnet_cookies |-> EmptyVal]

\* is_valid checking the session key only
is_valid_session_key_only(c) == c.session_key # EmptyVal

\* SessionCookies.is_valid
is_valid(c) ==
    /\ c.session_key # EmptyVal
    /\ c.user_session_key # EmptyVal
    /\ c.aspnet_cookies # EmptyVal

\* ------------------------------------------------------- response bodies
Sentinel == [dict |-> FALSE, dayAbbr |-> "", day |-> "", startTime |-> "", start |-> ""]
FullEntry == [dict |-> TRUE, dayAbbr |-> "28 novembre", day |-> "",
              startTime |-> "11:15", start |-> ""]
FallbackEntry == [dict |-> TRUE, dayAbbr |-> "", day |-> "29 novembre",
                  startTime |-> "", start |-> "09:30"]
DayOnlyEntry == [dict |-> TRUE, dayAbbr |-> "30 novembre", day |-> "",
                 startTime |-> "", start |-> ""]
Entries == {Sentinel, FullEntry, FallbackEntry, DayOnlyEntry}

RECURSIVE SeqsUpTo(_, _)
SeqsUpTo(S, n) ==
    IF n = 0 THEN {<<>>}
    ELSE LET shorter == SeqsUpTo(S, n - 1)
         IN  shorter \cup {Append(s, e) : s \in shorter, e \in S}

ApptLists == SeqsUpTo(Entries, MaxAppts)

\* the availabilityCount field: absent, null, a string, or an integer
AcVals == {[t |-> "absent", v |-> 0], [t |-> "null", v |-> 0], [t |-> "str", v |-> 0]}
          \cup {[t |-> "int", v |-> n] : n \in 0..MaxCount}

\* the appointments field: absent, null, a number, or a list of entries
ApVals == {[t |-> "absent", l |-> <<>>], [t |-> "null", l |-> <<>>],
           [t |-> "int", l |-> <<>>]}
          \cup {[t |-> "list", l |-> s] : s \in ApptLists}

\* the availabilityLines field: absent, null, a list of strings, or a list
\* of line objects each carrying its own appointments list
NoLines == [t |-> "absent", strs |-> <<>>, nested |-> <<>>]
StringLines(s) == [t |-> "strings", strs |-> s, nested |-> <<>>]
NestedLines(s) == [t |-> "nested", strs |-> <<>>, nested |-> s]
LineVals == {NoLines, [NoLines EXCEPT !.t = "null"],
             StringLines(<<"2024-02-01 10:00">>), NestedLines(<<<<FullEntry>>>>)}

NoBody == [kind |-> "none", ac |-> [t |-> "absent", v |-> 0],
           appts |-> [t |-> "absent", l |-> <<>>], lines |-> NoLines]

Bodies == {[NoBody EXCEPT !.kind = "notjson"], [NoBody EXCEPT !.kind = "nonobject"]}
          \cup {[kind |-> "object", ac |-> a, appts |-> p, lines |-> l] :
                    a \in AcVals, p \in ApVals, l \in LineVals}

\* bodies whose fields have the documented types
WellTyped(b) ==
    /\ b.kind = "object"
    /\ b.ac.t \in {"absent", "int"}
    /\ b.appts.t \in {"absent", "list"}
    /\ b.lines.t \in {"absent", "strings", "nested"}

\* ------------------------------------------- normalisation (main.py 313-354)
\* truth value Python gives the appointments field
Truthy(ap) == (ap.t = "list" /\ Len(ap.l) > 0) \/ ap.t = "int"

\* "not availability_lines"
LinesFalsy(ln) ==
    \/ ln.t \in {"absent", "null"}
    \/ ln.t = "strings" /\ ln.strs = <<>>
    \/ ln.t = "nested" /\ ln.nested = <<>>

\* appt.get("dayAbbr") or appt.get("day")
day_label(e) == IF e.dayAbbr # "" THEN e.dayAbbr ELSE e.day

\* appt.get("startTime") or appt.get("start")
time_label(e) == IF e.startTime # "" THEN e.startTime ELSE e.start

\* len([appt for appt in appointments if isinstance(appt, dict)])
DictCount(l) == Cardinality({i \in 1..Len(l) : l[i].dict})

\* the "<day> <time>" strings of the entries that are objects and carry both labels
RECURSIVE SlotLines(_)
SlotLines(l) ==
    IF l = <<>> THEN <<>>
    ELSE LET e == Head(l)
         IN  IF e.dict /\ day_label(e) # "" /\ time_label(e) # ""
             THEN <<day_label(e) \o " " \o time_label(e)>> \o SlotLines(Tail(l))
             ELSE SlotLines(Tail(l))

\* the message without the count interpolated
MessageWithoutCount(n) == "Found available appointment slot(s)!"

\* f"Found {availability_count} available appointment slot(s)!"
Message(n) == "Found " \o ToString(n) \o " available appointment slot(s)!"

\* the count derived from the appointments whatever the server reported
NormalizeAlwaysRecounting(b) ==
    LET failed == [raised |-> TRUE, count |-> 0, lines |-> NoLines, data |-> b]
        recount == Truthy(b.appts)
        count1 == IF recount THEN DictCount(b.appts.l) ELSE b.ac.v
        ac1    == IF recount /\ count1 # 0 THEN [t |-> "int", v |-> count1] ELSE b.ac
        rebuild == LinesFalsy(b.lines) /\ Truthy(b.appts)
        built  == SlotLines(b.appts.l)
        lines1 == IF rebuild THEN StringLines(built) ELSE b.lines
        dlines == IF rebuild /\ built # <<>> THEN StringLines(built) ELSE b.lines
    IN  IF b.kind # "object" THEN failed
        ELSE IF (recount \/ rebuild) /\ b.appts.t = "int" THEN failed
        ELSE IF ~recount /\ b.ac.t \in {"null", "str"} THEN failed
        ELSE IF count1 > 0 /\ lines1.t = "null" THEN failed
        ELSE [raised |-> FALSE, count |-> count1, lines |-> lines1,
              data |-> [b EXCEPT !.ac = ac1, !.lines = dlines]]

\* What lines 313-354 compute from the body of a 200 response:
\*   raised - an exception left the block (caught at line 359)
\*   count  - availability_count as compared at line 341
\*   lines  - the local availability_lines
\*   data   - the dictionary handed to NotificationService.send
Normalize(b) ==
    LET failed == [raised |-> TRUE, count |-> 0, lines |-> NoLines, data |-> b]
        zero   == b.ac.t = "absent" \/ (b.ac.t = "int" /\ b.ac.v = 0)
        recount == zero /\ Truthy(b.appts)
        count1 == IF recount THEN DictCount(b.appts.l) ELSE b.ac.v
        ac1    == IF recount /\ count1 # 0 THEN [t |-> "int", v |-> count1] ELSE b.ac
        rebuild == LinesFalsy(b.lines) /\ Truthy(b.appts)
        built  == SlotLines(b.appts.l)
        lines1 == IF rebuild THEN StringLines(built) ELSE b.lines
        dlines == IF rebuild /\ built # <<>> THEN StringLines(built) ELSE b.lines
    IN  IF b.kind # "object" THEN failed
        ELSE IF (recount \/ rebuild) /\ b.appts.t = "int" THEN failed
        ELSE IF ~recount /\ b.ac.t \in {"null", "str"} THEN failed
        ELSE IF count1 > 0 /\ lines1.t = "null" THEN failed
        ELSE [raised |-> FALSE, count |-> count1, lines |-> lines1,
              data |-> [b EXCEPT !.ac = ac1, !.lines = dlines]]

\* ------------------------------------------------------------------ state
VARIABLES
    pc,                    \* where run() / check_availability() stands
    session_key,           \* Config.session_key
    user_session_key,      \* Config.user_session_key
    aspnet_cookies,        \* Config.aspnet_cookies
    auto_login_enabled,    \* Config.auto_login_enabled
    poll_interval,         \* Config.poll_interval
    poll_interval_jitter,  \* Config.poll_interval_jitter
    login_attempted,       \* IRMSlotChecker._login_attempted
    cookies,               \* local of _perform_auto_login: what the login returned
    sleep_interval,        \* local of run(): the duration drawn for this tick
    healthy,               \* environment: login succeeds, fresh credentials get 200
    freshGen,              \* environment: tag of the set the last healthy login gave
    hdrs,                  \* this cycle: Cookie headers of the requests issued
    statuses,              \* this cycle: what each request came back with
    loginCalls,            \* this cycle: calls of get_session_cookies
    loginResult,           \* this cycle: how the login ended
    sends,                 \* this cycle: calls of NotificationService.send
    posts,                 \* this cycle: calls of WebClient.chat_postMessage
    notifications_enabled, \* Config.notifications_enabled
    slack_token,           \* Config.slack_token ("" when not set)
    slack_channel_id,      \* Config.slack_channel_id ("" when not set)
    stop_on_found,         \* environment: the operator asks that a Found cycle ends
                           \* the loop (no setting of the Config carries this wish)
    mainFrame,             \* main(): where it stands and the environment it reads
    sendFrame,             \* one call of NotificationService.send taken alone
    resolverFrame,         \* one call of an ExamResolver lookup taken alone
    loginFrame,            \* one call of EasydoctAuthenticator.login taken alone
    legacyFrame,           \* the loop of the legacy variant src/IRMslots.py
    outcome,               \* result of the cycle: Found, NotFound or Error
    body,                  \* this cycle: the body of the 200 response processed
    normalized,            \* this cycle: response.json() was called
    startCreds             \* the Credential Set as it was when the cycle began

vars == <<pc, session_key, user_session_key, aspnet_cookies, auto_login_enabled,
          poll_interval, poll_interval_jitter, login_attempted, cookies,
          sleep_interval, healthy, freshGen, hdrs, statuses, loginCalls,
          loginResult, sends, posts, notifications_enabled, slack_token,
          slack_channel_id, stop_on_found, outcome, body, normalized, startCreds,
          mainFrame, sendFrame, resolverFrame, loginFrame, legacyFrame>>

configVars == <<auto_login_enabled, poll_interval, poll_interval_jitter,
                notifications_enabled, slack_token, slack_channel_id,
                stop_on_found>>
configVars0 == <<poll_interval, poll_interval_jitter, notifications_enabled,
                 slack_token, slack_channel_id, stop_on_found>>
credVars == <<session_key, user_session_key, aspnet_cookies>>
compVars == <<mainFrame, sendFrame, resolverFrame, loginFrame, legacyFrame>>
envVars == <<healthy, freshGen>>

NoGen == -1
NoSleep == -100
TransportError == 0            \* the request raised instead of returning a status
Statuses == {200, 204, 401, 403, 500}

\* the Credential Set currently held by the Config object
CurrentCreds ==
    [session_key |-> session_key, user_session_key |-> user_session_key,
     aspnet_cookies |-> aspnet_cookies]

\* Config.get_headers: the composed Cookie value
get_headers ==
    [SessionKey |-> session_key, UserSessionKey |-> user_session_key,
     AspNetCookies |-> aspnet_cookies]

\* the Cookie value that carries exactly the Credential Set c
HeaderOf(c) ==
    [SessionKey |-> c.session_key, UserSessionKey |-> c.user_session_key,
     AspNetCookies |-> c.aspnet_cookies]

\* no call of send is looked at on its own
NoSend == [pc |-> "none", data |-> <<>>, slack_client |-> "none",
           built |-> "no", slack |-> "none"]

\* the lookup gave None
NoId == 0

\* no lookup of the ExamResolver is looked at on its own
NoLookup == [pc |-> "none", fn |-> "none", response |-> "none", names |-> <<>>,
             query |-> <<>>, result |-> NoId, caught |-> "none"]

\* no call of login is looked at on its own
NoLoginCall ==
    [pc |-> "none", requests |-> <<>>, result |-> "none", login_status |-> "none",
     viewstate |-> "none", post_status |-> "none", exam_status |-> "none",
     jar |-> [SessionKey |-> "absent", UserSessionKey |-> "absent",
              AspNetCookies |-> "absent"],
     fields |-> [session_key |-> "none", user_session_key |-> "none",
                 aspnet_cookies |-> "none"]]

\* the legacy loop is not looked at
NoLegacy == [pc |-> "none", cycles |-> 0, status |-> TransportError, body |-> NoBody,
             outcome |-> "none", sends |-> 0, sleeps |-> 0, sleep_interval |-> NoSleep,
             interrupted |-> FALSE]

\* main() has loaded the configuration and called run() (lines 452, 481-483)
Running == [pc |-> "running", env |-> "read", from_env |-> "returned"]

\* the notifier settings: everything set, notifications switched off, the
\* token missing, the channel id missing
NotifierConfigs ==
    {[enabled |-> TRUE,  token |-> "xoxb-token", channel |-> "C123456"],
     [enabled |-> FALSE, token |-> "xoxb-token", channel |-> "C123456"],
     [enabled |-> TRUE,  token |-> "",           channel |-> "C123456"],
     [enabled |-> TRUE,  token |-> "xoxb-token", channel |-> ""]}

\* IRMSlotChecker.__init__ followed by the entry into run(); the notifier
\* settings, which only send reads, are varied with no jitter and auto-login off
Init ==
    /\ pc = "tick"
    /\ session_key = SessionCookies(0).session_key
    /\ user_session_key = SessionCookies(0).user_session_key
    /\ aspnet_cookies = SessionCookies(0).aspnet_cookies
    /\ auto_login_enabled \in BOOLEAN
    /\ poll_interval = PollInterval
    /\ poll_interval_jitter \in 0..MaxJitter
    /\ \E n \in NotifierConfigs :
          /\ notifications_enabled = n.enabled
          /\ slack_token = n.token
          /\ slack_channel_id = n.channel
    /\ \/ poll_interval_jitter = 0 /\ ~auto_login_enabled
       \/ notifications_enabled /\ slack_token # "" /\ slack_channel_id # ""
    /\ stop_on_found \in BOOLEAN
    /\ stop_on_found
          => /\ poll_interval_jitter = 0 /\ ~auto_login_enabled
             /\ notifications_enabled /\ slack_token # "" /\ slack_channel_id # ""
    /\ login_attempted = FALSE
    /\ cookies = NoCookies
    /\ sleep_interval = NoSleep
    /\ healthy = FALSE
    /\ freshGen = NoGen
    /\ hdrs = <<>>
    /\ statuses = <<>>
    /\ loginCalls = 0
    /\ loginResult = "nocall"
    /\ sends = <<>>
    /\ posts = 0
    /\ outcome = "none"
    /\ body = NoBody
    /\ normalized = FALSE
    /\ startCreds = SessionCookies(0)
    /\ mainFrame = Running
    /\ sendFrame = NoSend
    /\ resolverFrame = NoLookup
    /\ loginFrame = NoLoginCall
    /\ legacyFrame = NoLegacy

\* ------------------------------------------------------------ environment
\* the header carries exactly the set the last login of the healthy period gave
IsFreshHeader(h) ==
    freshGen # NoGen /\ h = HeaderOf(SessionCookies(freshGen))

\* statuses the API may answer to a request with Cookie header h
StatusChoices(h) ==
    IF ~healthy THEN Statuses
    ELSE IF IsFreshHeader(h) THEN {200}
    ELSE {200, 401, 403}

\* bodies a recovered API sends with a 200: a count and nothing else
HealthyBodies ==
    {b \in Bodies : WellTyped(b) /\ b.appts.t = "absent" /\ b.lines.t = "absent"}

\* bodies the API may send with a 200
BodyChoices == IF healthy THEN HealthyBodies ELSE Bodies

\* tags a login may give the set it returns: none that the Config still holds
NewGens == Gens \ {session_key.gen, user_session_key.gen, aspnet_cookies.gen}

\* ------------------------------------------- check_availability (main.py)
\* every 4xx/5xx status taken for an authentication error
IsAuthErrorAnyFailure(st) == st >= 400

\* line 284: response.status_code in (401, 403)
IsAuthError(st) == st \in {401, 403}

\* the status check at line 309 letting a 401 through
IsOkOr401(st) == st \in {200, 401}

\* line 309: the complement of response.status_code != 200
IsOk(st) == st = 200

\* the re-login attempted whatever AUTO_LOGIN_ENABLED says
MayLoginIgnoringConfig == ~login_attempted

\* line 288: auto-login enabled and not already attempted
MayLogin == auto_login_enabled /\ ~login_attempted

\* the comparison at line 341 written >= 0
HasSlotsOrZero(n) == n >= 0

\* line 341: availability_count > 0
HasSlots(n) == n > 0

\* a return statement of check_availability: the cycle is over
EndCycle(o) ==
    /\ outcome' = o
    /\ pc' = "done"

\* the enabled flag of the notifier not looked at
SendReachesSlackIgnoringEnabled == slack_token # "" /\ slack_channel_id # ""

\* NotificationService.send, lines 42-54: the call goes on to _send_slack
\* (the Slack client exists exactly when the token is set, line 32)
SendReachesSlack ==
    /\ notifications_enabled
    /\ slack_token # ""
    /\ slack_channel_id # ""

\* the handler at lines 359-361 notifying instead of returning False
ProcessBodyNotifyingOnError(b) ==
    /\ body' = b
    /\ normalized' = TRUE
    /\ sends' = Append(sends, [message |-> Message(Normalize(b).count),
                               data |-> Normalize(b).data])
    /\ posts' = IF SendReachesSlack THEN posts + 1 ELSE posts
    /\ EndCycle(IF Normalize(b).raised THEN "Error" ELSE "Found")

\* lines 313-361 on the body b of a 200 response; the call of send at line
\* 349 posts at most once to Slack and returns whatever Slack answers
ProcessBody(b) ==
    LET r == Normalize(b)
    IN  /\ body' = b
        /\ normalized' = TRUE
        /\ IF r.raised
           THEN EndCycle("Error") /\ UNCHANGED <<sends, posts>>
           ELSE IF HasSlots(r.count)
           THEN /\ sends' = Append(sends, [message |-> Message(r.count), data |-> r.data])
                /\ posts' = IF SendReachesSlack THEN posts + 1 ELSE posts
                /\ EndCycle("Found")
           ELSE EndCycle("NotFound") /\ UNCHANGED <<sends, posts>>

\* a cycle started while the login of the previous one is still pending
StartCycleDuringLogin ==
    /\ pc \in {"tick", "login"}
    /\ pc' = "req1"
    /\ hdrs' = <<get_headers>>
    /\ outcome' = "none"
    /\ sleep_interval' = NoSleep
    /\ UNCHANGED <<credVars, configVars, compVars, envVars, login_attempted, cookies,
                   statuses, loginCalls, loginResult, sends, posts, body, normalized,
                   startCreds>>

\* lines 375-376, 276-281: the loop starts a cycle and issues the first request
StartCycle ==
    /\ pc = "tick"
    /\ pc' = "req1"
    /\ hdrs' = <<get_headers>>
    /\ outcome' = "none"
    /\ sleep_interval' = NoSleep
    /\ UNCHANGED <<credVars, configVars, compVars, envVars, login_attempted, cookies,
                   statuses, loginCalls, loginResult, sends, posts, body, normalized,
                   startCreds>>

\* a transport failure of the first request treated like a 401
FirstTransportErrorRelogin ==
    /\ pc = "req1"
    /\ ~healthy
    /\ statuses' = Append(statuses, TransportError)
    /\ loginCalls' = loginCalls + 1
    /\ pc' = "login"
    /\ UNCHANGED <<credVars, configVars, compVars, envVars, login_attempted, cookies,
                   sleep_interval, hdrs, loginResult, sends, posts, outcome, body,
                   normalized, startCreds>>

\* lines 276-281, 356-358: the first request raises RequestException
FirstTransportError ==
    /\ pc = "req1"
    /\ ~healthy
    /\ statuses' = Append(statuses, TransportError)
    /\ EndCycle("Error")
    /\ UNCHANGED <<credVars, configVars, compVars, envVars, login_attempted, cookies,
                   sleep_interval, hdrs, loginCalls, loginResult, sends, posts, body,
                   normalized, startCreds>>

\* lines 284-307: the first request comes back 401 or 403
FirstAuthError(st) ==
    /\ pc = "req1"
    /\ st \in StatusChoices(hdrs[1])
    /\ IsAuthError(st)
    /\ statuses' = Append(statuses, st)
    /\ IF MayLogin
       THEN /\ login_attempted' = TRUE
            /\ loginCalls' = loginCalls + 1
            /\ pc' = "login"
            /\ UNCHANGED outcome
       ELSE /\ EndCycle("Error")
            /\ UNCHANGED <<login_attempted, loginCalls>>
    /\ UNCHANGED <<credVars, configVars, compVars, envVars, cookies, sleep_interval, hdrs,
                   loginResult, sends, posts, body, normalized, startCreds>>

\* lines 309-311: the first request comes back with another non-200 status
FirstHttpError(st) ==
    /\ pc = "req1"
    /\ st \in StatusChoices(hdrs[1])
    /\ ~IsAuthError(st)
    /\ ~IsOk(st)
    /\ statuses' = Append(statuses, st)
    /\ EndCycle("Error")
    /\ UNCHANGED <<credVars, configVars, compVars, envVars, login_attempted, cookies,
                   sleep_interval, hdrs, loginCalls, loginResult, sends, posts, body,
                   normalized, startCreds>>

\* lines 313-354: the first request comes back 200 with body b
FirstOk(st, b) ==
    /\ pc = "req1"
    /\ st \in StatusChoices(hdrs[1])
    /\ b \in BodyChoices
    /\ ~IsAuthError(st)
    /\ IsOk(st)
    /\ statuses' = Append(statuses, st)
    /\ ProcessBody(b)
    /\ UNCHANGED <<credVars, configVars, compVars, envVars, login_attempted, cookies,
                   sleep_interval, hdrs, loginCalls, loginResult, startCreds>>

\* ------------------------------------------ _perform_auto_login (main.py)
\* a failed login wiping the session key held by the Config
LoginFailsClearingCreds(how) ==
    /\ pc = "login"
    /\ ~healthy
    /\ how \in {"None", "raise"}
    /\ loginResult' = how
    /\ session_key' = EmptyVal
    /\ EndCycle("Error")
    /\ UNCHANGED <<user_session_key, aspnet_cookies, configVars, compVars, envVars,
                   login_attempted, cookies, sleep_interval, hdrs, statuses,
                   loginCalls, sends, posts, body, normalized, startCreds>>

\* lines 252-256, 265-271: get_session_cookies returns None or raises
LoginFails(how) ==
    /\ pc = "login"
    /\ ~healthy
    /\ how \in {"None", "raise"}
    /\ loginResult' = how
    /\ EndCycle("Error")
    /\ UNCHANGED <<credVars, configVars, compVars, envVars, login_attempted, cookies,
                   sleep_interval, hdrs, statuses, loginCalls, sends, posts, body,
                   normalized, startCreds>>

\* the request retried although the set the login returned is not valid
LoginReturnsRetryingAnyway(c) ==
    /\ pc = "login"
    /\ \E g \in NewGens :
          \/ c = SessionCookies(g) /\ loginResult' = "valid"
          \/ ~healthy /\ c = InvalidCookies(g) /\ loginResult' = "invalid"
    /\ cookies' = c
    /\ IF is_valid(c)
       THEN /\ pc' = "assign_session_key"
            /\ freshGen' = IF healthy THEN c.session_key.gen ELSE freshGen
            /\ UNCHANGED outcome
       ELSE /\ pc' = "retry"
            /\ UNCHANGED <<freshGen, outcome>>
    /\ UNCHANGED <<credVars, configVars, compVars, healthy, login_attempted,
                   sleep_interval, hdrs, statuses, loginCalls, sends, posts, body,
                   normalized, startCreds>>

\* lines 252-258, 265-267, 302-304: get_session_cookies returns an object
LoginReturns(c) ==
    /\ pc = "login"
    /\ \E g \in NewGens :
          \/ c = SessionCookies(g) /\ loginResult' = "valid"
          \/ ~healthy /\ c = InvalidCookies(g) /\ loginResult' = "invalid"
    /\ cookies' = c
    /\ IF is_valid(c)
       THEN /\ pc' = "assign_session_key"
            /\ freshGen' = IF healthy THEN c.session_key.gen ELSE freshGen
            /\ UNCHANGED outcome
       ELSE /\ EndCycle("Error")
            /\ UNCHANGED freshGen
    /\ UNCHANGED <<credVars, configVars, compVars, healthy, login_attempted,
                   sleep_interval, hdrs, statuses, loginCalls, sends, posts, body,
                   normalized, startCreds>>

\* line 260: self.config.session_key = cookies.session_key
AssignSessionKey ==
    /\ pc = "assign_session_key"
    /\ session_key' = cookies.session_key
    /\ pc' = "assign_user_session_key"
    /\ UNCHANGED <<user_session_key, aspnet_cookies, configVars, compVars, envVars,
                   login_attempted, cookies, sleep_interval, hdrs, statuses,
                   loginCalls, loginResult, sends, posts, outcome, body, normalized,
                   startCreds>>

\* line 261 left out: the user session key keeps its old value
AssignUserSessionKeySkipped ==
    /\ pc = "assign_user_session_key"
    /\ pc' = "assign_aspnet_cookies"
    /\ UNCHANGED <<credVars, configVars, compVars, envVars, login_attempted, cookies,
                   sleep_interval, hdrs, statuses, loginCalls, loginResult,
                   sends, posts, outcome, body, normalized, startCreds>>

\* line 261: self.config.user_session_key = cookies.user_session_key
AssignUserSessionKey ==
    /\ pc = "assign_user_session_key"
    /\ user_session_key' = cookies.user_session_key
    /\ pc' = "assign_aspnet_cookies"
    /\ UNCHANGED <<session_key, aspnet_cookies, configVars, compVars, envVars,
                   login_attempted, cookies, sleep_interval, hdrs, statuses,
                   loginCalls, loginResult, sends, posts, outcome, body, normalized,
                   startCreds>>

\* line 262 left out: the cookie blob keeps its old value
AssignAspnetCookiesSkipped ==
    /\ pc = "assign_aspnet_cookies"
    /\ pc' = "retry"
    /\ UNCHANGED <<credVars, configVars, compVars, envVars, login_attempted, cookies,
                   sleep_interval, hdrs, statuses, loginCalls, loginResult,
                   sends, posts, outcome, body, normalized, startCreds>>

\* lines 262-264: self.config.aspnet_cookies = cookies.aspnet_cookies; return True
AssignAspnetCookies ==
    /\ pc = "assign_aspnet_cookies"
    /\ aspnet_cookies' = cookies.aspnet_cookies
    /\ pc' = "retry"
    /\ UNCHANGED <<session_key, user_session_key, configVars, compVars, envVars,
                   login_attempted, cookies, sleep_interval, hdrs, statuses,
                   loginCalls, loginResult, sends, posts, outcome, body, normalized,
                   startCreds>>

\* ------------------------------------- the retried request (main.py 291-311)
\* lines 293-298: the request is rebuilt from the Config and issued again
RetryRequest ==
    /\ pc = "retry"
    /\ hdrs' = Append(hdrs, get_headers)
    /\ pc' = "req2"
    /\ UNCHANGED <<credVars, configVars, compVars, envVars, login_attempted, cookies,
                   sleep_interval, statuses, loginCalls, loginResult, sends, posts,
                   outcome, body, normalized, startCreds>>

\* lines 293-298, 356-358: the retried request raises RequestException
RetryTransportError ==
    /\ pc = "req2"
    /\ ~healthy
    /\ statuses' = Append(statuses, TransportError)
    /\ EndCycle("Error")
    /\ UNCHANGED <<credVars, configVars, compVars, envVars, login_attempted, cookies,
                   sleep_interval, hdrs, loginCalls, loginResult, sends, posts, body,
                   normalized, startCreds>>

\* a retried request that fails is issued once more
RetryHttpErrorRetrying(st) ==
    /\ pc = "req2"
    /\ st \in StatusChoices(hdrs[2])
    /\ ~IsOk(st)
    /\ statuses' = Append(statuses, st)
    /\ hdrs' = Append(hdrs, get_headers)
    /\ login_attempted' = IF st = 200 THEN FALSE ELSE login_attempted
    /\ EndCycle("Error")
    /\ UNCHANGED <<credVars, configVars, compVars, envVars, cookies, sleep_interval,
                   loginCalls, loginResult, sends, posts, body, normalized, startCreds>>

\* lines 300-301, 309-311: the retried request comes back with a non-200 status
RetryHttpError(st) ==
    /\ pc = "req2"
    /\ st \in StatusChoices(hdrs[2])
    /\ ~IsOk(st)
    /\ statuses' = Append(statuses, st)
    /\ login_attempted' = IF st = 200 THEN FALSE ELSE login_attempted
    /\ EndCycle("Error")
    /\ UNCHANGED <<credVars, configVars, compVars, envVars, cookies, sleep_interval, hdrs,
                   loginCalls, loginResult, sends, posts, body, normalized, startCreds>>

\* lines 300-301, 313-354: the retried request comes back 200 with body b
RetryOk(st, b) ==
    /\ pc = "req2"
    /\ st \in StatusChoices(hdrs[2])
    /\ b \in BodyChoices
    /\ IsOk(st)
    /\ statuses' = Append(statuses, st)
    /\ login_attempted' = IF st = 200 THEN FALSE ELSE login_attempted
    /\ ProcessBody(b)
    /\ UNCHANGED <<credVars, configVars, compVars, envVars, cookies, sleep_interval, hdrs,
                   loginCalls, loginResult, startCreds>>

\* ------------------------------------------------------ run (main.py 363-392)
\* the jitter added on top of the base interval only
SleepChoicesOneSided ==
    IF poll_interval_jitter > 0
    THEN poll_interval..(poll_interval + 2 * poll_interval_jitter)
    ELSE {poll_interval}

\* lines 380-384: the values random.uniform may return, or the base interval
SleepChoices ==
    IF poll_interval_jitter > 0
    THEN (poll_interval - poll_interval_jitter)..(poll_interval + poll_interval_jitter)
    ELSE {poll_interval}

\* lines 376-386, 390-392: check_availability has returned (the record of the
\* cycle is closed), the duration is drawn and time.sleep is entered;
\* time.sleep raises ValueError on a negative duration and run() re-raises
DrawSleep(d) ==
    /\ pc = "done"
    /\ d \in SleepChoices
    /\ sleep_interval' = d
    /\ pc' = IF d < 0 THEN "crashed" ELSE "sleep"
    /\ hdrs' = <<>>
    /\ statuses' = <<>>
    /\ loginCalls' = 0
    /\ loginResult' = "nocall"
    /\ sends' = <<>>
    /\ posts' = 0
    /\ body' = NoBody
    /\ normalized' = FALSE
    /\ cookies' = NoCookies
    /\ startCreds' = CurrentCreds
    /\ UNCHANGED <<credVars, configVars, compVars, envVars, login_attempted, outcome>>

\* the loop going on after the interrupt was handled
WakeAfterInterrupt ==
    /\ pc \in {"sleep", "stopped"}
    /\ pc' = "tick"
    /\ UNCHANGED <<credVars, configVars, compVars, envVars, login_attempted, cookies,
                   sleep_interval, hdrs, statuses, loginCalls, loginResult,
                   sends, posts, outcome, body, normalized, startCreds>>

\* line 386 returns: back to the top of the while loop
Wake ==
    /\ pc = "sleep"
    /\ pc' = "tick"
    /\ UNCHANGED <<credVars, configVars, compVars, envVars, login_attempted, cookies,
                   sleep_interval, hdrs, statuses, loginCalls, loginResult,
                   sends, posts, outcome, body, normalized, startCreds>>

\* lines 388-389: KeyboardInterrupt, wherever the loop stands, ends run();
\* the frame of the interrupted call is unwound and its record with it
Interrupt ==
    /\ pc \notin {"stopped", "crashed"}
    /\ pc' = "stopped"
    /\ hdrs' = <<>>
    /\ statuses' = <<>>
    /\ loginCalls' = 0
    /\ loginResult' = "nocall"
    /\ sends' = <<>>
    /\ posts' = 0
    /\ body' = NoBody
    /\ normalized' = FALSE
    /\ cookies' = NoCookies
    /\ startCreds' = CurrentCreds
    /\ UNCHANGED <<credVars, configVars, compVars, envVars, login_attempted,
                   sleep_interval, outcome>>

\* environment: between two cycles the service recovers for good
Heal ==
    /\ pc = "sleep"
    /\ ~healthy
    /\ healthy' = TRUE
    /\ freshGen' = NoGen
    /\ UNCHANGED <<pc, credVars, configVars, compVars, login_attempted, cookies,
                   sleep_interval, hdrs, statuses, loginCalls, loginResult,
                   sends, posts, outcome, body, normalized, startCreds>>

\* every step the checker itself or a pending network call takes
Step ==
    \/ StartCycle
    \/ FirstTransportError
    \/ \E st \in Statuses : FirstAuthError(st)
    \/ \E st \in Statuses : FirstHttpError(st)
    \/ \E st \in Statuses, b \in Bodies : FirstOk(st, b)
    \/ \E how \in {"None", "raise"} : LoginFails(how)
    \/ \E g \in Gens : LoginReturns(SessionCookies(g))
    \/ \E g \in Gens : LoginReturns(InvalidCookies(g))
    \/ AssignSessionKey
    \/ AssignUserSessionKey
    \/ AssignAspnetCookies
    \/ RetryRequest
    \/ RetryTransportError
    \/ \E st \in Statuses : RetryHttpError(st)
    \/ \E st \in Statuses, b \in Bodies : RetryOk(st, b)
    \/ \E d \in (PollInterval - MaxJitter)..(PollInterval + MaxJitter) : DrawSleep(d)
    \/ Wake

Next == Step \/ Interrupt \/ Heal

Spec == Init /\ [][Next]_vars

\* every pending call returns or times out and the loop keeps running
FairSpec == Spec /\ WF_vars(Step)

\* one body of each kind check_availability tells apart: not JSON, a count
\* of zero, a positive count, a count that cannot be compared
CycleBodies ==
    {NoBody, [NoBody EXCEPT !.kind = "notjson"]}
        \cup {[NoBody EXCEPT !.kind = "object", !.ac = a] :
                 a \in {[t |-> "int", v |-> 0], [t |-> "int", v |-> 1],
                        [t |-> "str", v |-> 0]}}

\* the loop run with a fixed interval
CycleInit == Init /\ poll_interval_jitter = 0 /\ ~stop_on_found

\* a step of the checker, the API answering with one of CycleBodies
CycleStep == Step /\ body' \in CycleBodies

CycleNext == CycleStep \/ Interrupt \/ Heal

\* the loop whose every pending network call returns or times out
CycleFairSpec == CycleInit /\ [][CycleNext]_vars /\ WF_vars(CycleStep)

\* --------------------------------------------------- main (main.py 444-491)
\* the template text a cookie setting of the .env file is shipped with
Placeholder(n) == [name |-> n, gen |-> NoGen]

\* values a cookie setting of the environment may have
EnvCookieVals(n) == {EmptyVal, Placeholder(n), CookieVal(n, 0)}

\* What the process finds in its environment:
\*   auto        - AUTO_LOGIN_ENABLED is "true"
\*   required    - API_URL, EXAM_TYPE_ID and PATIENT_BIRTH_DATE are set
\*   credentials - EASYDOCT_EMAIL, EASYDOCT_PASSWORD and EXAM_URL are set
\*   exam_id, exam_name, location_name, office_place_ids - the setting is set
\*   numeric     - the two interval settings parse as integers
\*   log_file_ok - the log file can be opened
\*   exam_resolves, location_resolves - the Resolver, if asked, returns an id
\*   session_key, user_session_key, aspnet_cookies - the cookie settings
Envs ==
    [auto : BOOLEAN, required : BOOLEAN, credentials : BOOLEAN, exam_id : BOOLEAN, exam_name : BOOLEAN,
     location_name : BOOLEAN, office_place_ids : BOOLEAN, numeric : BOOLEAN,
     log_file_ok : BOOLEAN, exam_resolves : BOOLEAN, location_resolves : BOOLEAN,
     session_key : EnvCookieVals("SessionKey"),
     user_session_key : EnvCookieVals("UserSessionKey"),
     aspnet_cookies : EnvCookieVals(".AspNet.Cookies")]

\* the three cookie settings required in auto-login mode too
SettingsInvalidCookiesAlwaysRequired(e) ==
    \/ ~e.exam_id /\ ~e.exam_name
    \/ ~e.required
    \/ e.auto /\ ~e.credentials
    \/ \/ e.session_key = EmptyVal
       \/ e.user_session_key = EmptyVal
       \/ e.aspnet_cookies = EmptyVal
    \/ ~e.numeric

\* lines 82-83, 122-134, 136-137: from_env raises ValueError before any
\* name is resolved
SettingsInvalid(e) ==
    \/ ~e.exam_id /\ ~e.exam_name
    \/ ~e.required
    \/ e.auto /\ ~e.credentials
    \/ /\ ~e.auto
       /\ \/ e.session_key = EmptyVal
          \/ e.user_session_key = EmptyVal
          \/ e.aspnet_cookies = EmptyVal
    \/ ~e.numeric

\* line 147: the exam id has to be resolved from the exam name
NeedsExamResolution(e) == e.exam_name /\ ~e.exam_id

\* line 158: the location id has to be resolved from the location name
NeedsLocationResolution(e) == e.location_name /\ ~e.office_place_ids

\* lines 82-83, 122-137, 147-169: Config.from_env raises ValueError
ConfigError(e) ==
    \/ SettingsInvalid(e)
    \/ NeedsExamResolution(e) /\ ~e.exam_resolves
    \/ NeedsLocationResolution(e) /\ ~e.location_resolves

\* the cookies only required to be set
has_valid_cookies_nonempty_only(c) ==
    /\ c.session_key # EmptyVal
    /\ c.user_session_key # EmptyVal
    /\ c.aspnet_cookies # EmptyVal

\* lines 463-469: has_valid_cookies
has_valid_cookies(c) ==
    /\ c.session_key # EmptyVal
    /\ c.user_session_key # EmptyVal
    /\ c.aspnet_cookies # EmptyVal
    /\ c.session_key # Placeholder("SessionKey")
    /\ c.aspnet_cookies # Placeholder(".AspNet.Cookies")

\* what main() leaves alone until run() is called
loopVars == <<pc, configVars0, envVars, login_attempted, sleep_interval, hdrs,
              statuses, sends, posts, outcome, body, normalized, sendFrame,
              resolverFrame, loginFrame, legacyFrame>>

\* the process ends with status 1 (lines 477, 485-491)
Exit1 == mainFrame' = [mainFrame EXCEPT !.pc = "exit1"]

\* lines 452, 485-488: Config.from_env raises ValueError (a setting is
\* missing or malformed, or a name cannot be resolved); main() exits with 1
FromEnvRaises ==
    /\ mainFrame.pc = "from_env"
    /\ ConfigError(mainFrame.env)
    /\ mainFrame' = [mainFrame EXCEPT !.pc = "exit1", !.from_env = "raised"]
    /\ UNCHANGED <<loopVars, credVars, auto_login_enabled, cookies, loginCalls,
                   loginResult, startCreds>>

\* lines 452, 62-176: Config.from_env returns the Config (the names that
\* had to be resolved were resolved)
FromEnvReturns ==
    /\ mainFrame.pc = "from_env"
    /\ ~ConfigError(mainFrame.env)
    /\ auto_login_enabled' = mainFrame.env.auto
    /\ session_key' = mainFrame.env.session_key
    /\ user_session_key' = mainFrame.env.user_session_key
    /\ aspnet_cookies' = mainFrame.env.aspnet_cookies
    /\ startCreds' = [session_key |-> mainFrame.env.session_key,
                      user_session_key |-> mainFrame.env.user_session_key,
                      aspnet_cookies |-> mainFrame.env.aspnet_cookies]
    /\ mainFrame' = [mainFrame EXCEPT !.pc = "setup_logging",
                                      !.from_env = "returned"]
    /\ UNCHANGED <<loopVars, cookies, loginCalls, loginResult>>

\* lines 460, 489-491: setup_logging cannot open the log file; exit with 1
SetupLoggingRaises ==
    /\ mainFrame.pc = "setup_logging"
    /\ ~mainFrame.env.log_file_ok
    /\ Exit1
    /\ UNCHANGED <<loopVars, credVars, auto_login_enabled, cookies, loginCalls,
                   loginResult, startCreds>>

\* lines 460-475: logging is set up; the initial login is called when
\* auto-login is enabled and the configured cookies are not valid
SetupLogging ==
    /\ mainFrame.pc = "setup_logging"
    /\ mainFrame.env.log_file_ok
    /\ IF auto_login_enabled /\ ~has_valid_cookies(CurrentCreds)
       THEN /\ mainFrame' = [mainFrame EXCEPT !.pc = "initial_login"]
            /\ loginCalls' = loginCalls + 1
       ELSE /\ mainFrame' = [mainFrame EXCEPT !.pc = "create_checker"]
            /\ UNCHANGED loginCalls
    /\ UNCHANGED <<loopVars, credVars, auto_login_enabled, cookies, loginResult,
                   startCreds>>

\* the checker created although the initial login failed
InitialLoginFailsIgnored(how) ==
    /\ mainFrame.pc = "initial_login"
    /\ how \in {"None", "raise"}
    /\ loginResult' = how
    /\ mainFrame' = [mainFrame EXCEPT !.pc = "create_checker"]
    /\ UNCHANGED <<loopVars, credVars, auto_login_enabled, cookies, loginCalls,
                   startCreds>>

\* lines 475-477, 252-256, 265-271: the initial login returns None or raises
InitialLoginFails(how) ==
    /\ mainFrame.pc = "initial_login"
    /\ how \in {"None", "raise"}
    /\ loginResult' = how
    /\ Exit1
    /\ UNCHANGED <<loopVars, credVars, auto_login_enabled, cookies, loginCalls,
                   startCreds>>

\* lines 475-479, 252-264: the initial login returns an object; a valid one
\* is written to the Config, an invalid one ends the process
InitialLoginReturns(c) ==
    /\ mainFrame.pc = "initial_login"
    /\ cookies' = c
    /\ loginResult' = IF c \in {SessionCookies(g) : g \in Gens} THEN "valid" ELSE "invalid"
    /\ IF is_valid(c)
       THEN /\ session_key' = c.session_key
            /\ user_session_key' = c.user_session_key
            /\ aspnet_cookies' = c.aspnet_cookies
            /\ mainFrame' = [mainFrame EXCEPT !.pc = "create_checker"]
       ELSE /\ Exit1
            /\ UNCHANGED credVars
    /\ UNCHANGED <<loopVars, auto_login_enabled, loginCalls, startCreds>>

\* lines 481-483: the checker is created and run() is called
RunChecker ==
    /\ mainFrame.pc = "create_checker"
    /\ mainFrame' = [mainFrame EXCEPT !.pc = "running"]
    /\ pc' = "tick"
    /\ UNCHANGED <<configVars, envVars, credVars, login_attempted, cookies,
                   sleep_interval, hdrs, statuses, loginCalls, loginResult,
                   sends, posts, outcome, body, normalized, startCreds, sendFrame,
                   resolverFrame, loginFrame, legacyFrame>>

\* the process is started: nothing is loaded yet, run() is not entered
MainInit ==
    /\ \E e \in Envs : mainFrame = [pc |-> "from_env", env |-> e, from_env |-> "pending"]
    /\ pc = "not_started"
    /\ session_key = EmptyVal
    /\ user_session_key = EmptyVal
    /\ aspnet_cookies = EmptyVal
    /\ auto_login_enabled = FALSE
    /\ poll_interval = PollInterval
    /\ poll_interval_jitter = 0
    /\ notifications_enabled = TRUE
    /\ slack_token = "xoxb-token"
    /\ slack_channel_id = "C123456"
    /\ stop_on_found = FALSE
    /\ login_attempted = FALSE
    /\ cookies = NoCookies
    /\ sleep_interval = NoSleep
    /\ healthy = FALSE
    /\ freshGen = NoGen
    /\ hdrs = <<>>
    /\ statuses = <<>>
    /\ loginCalls = 0
    /\ loginResult = "nocall"
    /\ sends = <<>>
    /\ posts = 0
    /\ outcome = "none"
    /\ body = NoBody
    /\ normalized = FALSE
    /\ startCreds = NoCookies
    /\ sendFrame = NoSend
    /\ resolverFrame = NoLookup
    /\ loginFrame = NoLoginCall
    /\ legacyFrame = NoLegacy

MainNext ==
    \/ FromEnvRaises
    \/ FromEnvReturns
    \/ SetupLoggingRaises
    \/ SetupLogging
    \/ \E how \in {"None", "raise"} : InitialLoginFails(how)
    \/ \E g \in Gens : InitialLoginReturns(SessionCookies(g))
    \/ \E g \in Gens : InitialLoginReturns(InvalidCookies(g))
    \/ RunChecker

MainSpec == MainInit /\ [][MainNext]_vars

\* ------------------------- NotificationService (notifications.py 9-54, 150-242)
\* an entry of the data as the message builder sees it: whether it carries
\* both dayAbbr and startTime, and what its officePlaceName is
SlackEntries == [labels : BOOLEAN, location : {"absent", "str", "int"}]

\* the availability_data argument: a dictionary with its appointments, or
\* something that is not a dictionary
SendData == [dict : BOOLEAN, appts : SeqsUpTo(SlackEntries, MaxAppts)]

\* lines 163-223: building the blocks raises (the data has no get, or
\* location.strip() at line 141 is applied to something that is not a string)
BuildFails(d) ==
    \/ ~d.dict
    \/ \E i \in 1..Len(d.appts) : d.appts[i].labels /\ d.appts[i].location = "int"

\* what chat_postMessage does: it returns ok or ok=false, or it raises
SlackOutcomes == {"ok", "ok_false", "SlackApiError", "Exception"}

\* what the send looked at leaves alone
sendFrameOthers == <<pc, credVars, configVars, envVars, login_attempted, cookies,
                     sleep_interval, hdrs, statuses, loginCalls, loginResult,
                     sends, outcome, body, normalized, startCreds, mainFrame,
                     resolverFrame, loginFrame, legacyFrame>>

\* lines 42-52: send returns at one of its three early exits
SendSkipped ==
    /\ sendFrame.pc = "called"
    /\ ~(SendReachesSlack /\ sendFrame.slack_client = "client")
    /\ sendFrame' = [sendFrame EXCEPT !.pc = "returned"]
    /\ UNCHANGED <<sendFrameOthers, posts>>

\* lines 42-54, 158: send goes on to _send_slack
SendEnters ==
    /\ sendFrame.pc = "called"
    /\ SendReachesSlack
    /\ sendFrame.slack_client = "client"
    /\ sendFrame' = [sendFrame EXCEPT !.pc = "building"]
    /\ UNCHANGED <<sendFrameOthers, posts>>

\* lines 163-223, 241-242: building the message raises; the exception is
\* caught and logged, nothing is posted
BuildRaises ==
    /\ sendFrame.pc = "building"
    /\ BuildFails(sendFrame.data)
    /\ sendFrame' = [sendFrame EXCEPT !.pc = "returned", !.built = "raised"]
    /\ UNCHANGED <<sendFrameOthers, posts>>

\* the message posted twice
BuildDonePostingTwice ==
    /\ sendFrame.pc = "building"
    /\ ~BuildFails(sendFrame.data)
    /\ sendFrame' = [sendFrame EXCEPT !.pc = "posting", !.built = "ok"]
    /\ posts' = posts + 2
    /\ UNCHANGED sendFrameOthers

\* lines 163-231: the blocks are built and chat_postMessage is called
BuildDone ==
    /\ sendFrame.pc = "building"
    /\ ~BuildFails(sendFrame.data)
    /\ sendFrame' = [sendFrame EXCEPT !.pc = "posting", !.built = "ok"]
    /\ posts' = posts + 1
    /\ UNCHANGED sendFrameOthers

\* a failure of the post leaving send as an exception
PostDonePropagating(o) ==
    /\ sendFrame.pc = "posting"
    /\ o \in SlackOutcomes
    /\ sendFrame' = [sendFrame EXCEPT
                       !.pc = IF o \in {"SlackApiError", "Exception"}
                              THEN "raised" ELSE "returned",
                       !.slack = o]
    /\ UNCHANGED <<sendFrameOthers, posts>>

\* lines 227-242: chat_postMessage returns (ok or ok=false is logged) or
\* raises (SlackApiError or anything else is caught and logged)
PostDone(o) ==
    /\ sendFrame.pc = "posting"
    /\ o \in SlackOutcomes
    /\ sendFrame' = [sendFrame EXCEPT !.pc = "returned", !.slack = o]
    /\ UNCHANGED <<sendFrameOthers, posts>>

\* a service is constructed (lines 26-32) and send is called once on it
SendInit ==
    /\ \E n \in NotifierConfigs \cup {[enabled |-> FALSE, token |-> "", channel |-> ""]} :
          /\ notifications_enabled = n.enabled
          /\ slack_token = n.token
          /\ slack_channel_id = n.channel
    /\ \E d \in SendData :
          sendFrame = [pc |-> "called", data |-> d,
                       slack_client |-> IF slack_token # "" THEN "client" ELSE "none",
                       built |-> "no", slack |-> "none"]
    /\ posts = 0
    /\ pc = "not_started"
    /\ session_key = EmptyVal
    /\ user_session_key = EmptyVal
    /\ aspnet_cookies = EmptyVal
    /\ auto_login_enabled = FALSE
    /\ poll_interval = PollInterval
    /\ poll_interval_jitter = 0
    /\ stop_on_found = FALSE
    /\ login_attempted = FALSE
    /\ cookies = NoCookies
    /\ sleep_interval = NoSleep
    /\ healthy = FALSE
    /\ freshGen = NoGen
    /\ hdrs = <<>>
    /\ statuses = <<>>
    /\ loginCalls = 0
    /\ loginResult = "nocall"
    /\ sends = <<>>
    /\ outcome = "none"
    /\ body = NoBody
    /\ normalized = FALSE
    /\ startCreds = NoCookies
    /\ mainFrame = Running
    /\ resolverFrame = NoLookup
    /\ loginFrame = NoLoginCall
    /\ legacyFrame = NoLegacy

SendNext ==
    \/ SendSkipped
    \/ SendEnters
    \/ BuildRaises
    \/ BuildDone
    \/ \E o \in SlackOutcomes : PostDone(o)

SendSpec == SendInit /\ [][SendNext]_vars

\* ------------------------------------------ ExamResolver (resolver.py 15-159)
\* str.lower on one character of the alphabet the names are written in
lower_char(c) ==
    CASE c = "A" -> "a"
      [] c = "B" -> "b"
      [] OTHER -> c

\* str.lower
lower(s) == [i \in 1..Len(s) |-> lower_char(s[i])]

RECURSIVE lstrip(_)
lstrip(s) == IF s # <<>> /\ Head(s) = " " THEN lstrip(Tail(s)) ELSE s

RECURSIVE rstrip(_)
rstrip(s) ==
    IF s # <<>> /\ s[Len(s)] = " " THEN rstrip(SubSeq(s, 1, Len(s) - 1)) ELSE s

\* str.strip
strip(s) == rstrip(lstrip(s))

\* sub in s
Contains(sub, s) ==
    \E i \in 1..(Len(s) - Len(sub) + 1) : SubSeq(s, i, i + Len(sub) - 1) = sub

\* the names the service gives its exams and locations
CandidateNames == {<<"a", "b">>, <<"A", "B", " ">>, <<"x", "a", "b">>, <<"c">>}

\* an entry of the response: with its name, or without the key name
Candidates ==
    [has_name : {TRUE}, name : CandidateNames]
        \cup {[has_name |-> FALSE, name |-> <<>>]}

\* the name asked for (EXAM_NAME, LOCATION_NAME)
Queries == {<<"a", "b">>, <<" ", "A", "b">>, <<"b">>, <<"d">>, <<" ">>}

\* how the GET ends: a status other than 200, a transport error, a body that
\* is not JSON, JSON of another shape, or the list of candidates
LookupResponses == {"http_error", "transport_error", "not_json", "wrong_shape", "ok"}

\* the id of the i-th entry of the response
IdOf(i) == i

\* the first loop (lines 48-52, 123-128) from entry i on: it returns an id,
\* raises KeyError on a missing name, or ends without a match
RECURSIVE ExactLoop(_, _, _, _)
ExactLoop(fn, names, q, i) ==
    IF i > Len(names) THEN [how |-> "none", id |-> NoId]
    ELSE IF fn = "get_exam_id" /\ ~names[i].has_name
         THEN [how |-> "raise", id |-> NoId]
    ELSE IF strip(lower(names[i].name)) = q
         THEN IF names[i].has_name THEN [how |-> "return", id |-> IdOf(i)]
                                   ELSE [how |-> "raise", id |-> NoId]
    ELSE ExactLoop(fn, names, q, i + 1)

\* the second loop (lines 55-58, 131-135): the entries that contain q
PartialMatches(names, q) ==
    {i \in 1..Len(names) : Contains(q, lower(names[i].name))}

\* lines 55-75, 131-152: the first of the partial matches, in response order
Partial(fn, names, q) ==
    IF fn = "get_exam_id" /\ \E i \in 1..Len(names) : ~names[i].has_name
    THEN [how |-> "raise", id |-> NoId]
    ELSE IF PartialMatches(names, q) = {} THEN [how |-> "none", id |-> NoId]
    ELSE LET m == CHOOSE i \in PartialMatches(names, q) :
                     \A j \in PartialMatches(names, q) : i <= j
         IN  IF names[m].has_name THEN [how |-> "return", id |-> IdOf(m)]
                                  ELSE [how |-> "raise", id |-> NoId]

\* the lookup without its first loop: the partial search alone
LookupPartialOnly(fn, response, names, query) ==
    LET q == strip(lower(query))
    IN  IF response = "transport_error" THEN [how |-> "raise", id |-> NoId]
        ELSE IF response = "http_error" THEN [how |-> "none", id |-> NoId]
        ELSE IF response = "not_json" THEN [how |-> "raise", id |-> NoId]
        ELSE IF response = "wrong_shape"
             THEN IF fn = "get_exam_id" THEN [how |-> "raise", id |-> NoId]
                                        ELSE [how |-> "none", id |-> NoId]
        ELSE IF names = <<>> THEN [how |-> "none", id |-> NoId]
        ELSE Partial(fn, names, q)

\* get_exam_id (lines 30-82) and get_location_id (lines 101-159) up to the
\* handlers: the id returned, None, or an exception
Lookup(fn, response, names, query) ==
    LET q == strip(lower(query))
    IN  IF response = "transport_error" THEN [how |-> "raise", id |-> NoId]
        ELSE IF response = "http_error" THEN [how |-> "none", id |-> NoId]
        ELSE IF response = "not_json" THEN [how |-> "raise", id |-> NoId]
        ELSE IF response = "wrong_shape"
             THEN IF fn = "get_exam_id" THEN [how |-> "raise", id |-> NoId]
                                        ELSE [how |-> "none", id |-> NoId]
        ELSE IF names = <<>> THEN [how |-> "none", id |-> NoId]
        ELSE IF ExactLoop(fn, names, q, 1).how # "none"
             THEN ExactLoop(fn, names, q, 1)
        ELSE Partial(fn, names, q)

\* what the lookup looked at leaves alone
resolverFrameOthers == <<pc, credVars, configVars, envVars, login_attempted,
                         cookies, sleep_interval, hdrs, statuses, loginCalls,
                         loginResult, sends, posts, outcome, body, normalized,
                         startCreds, mainFrame, sendFrame, loginFrame,
                         legacyFrame>>

\* the lookup returns from its try block: an id, or None
LookupReturns ==
    /\ resolverFrame.pc = "called"
    /\ LET r == Lookup(resolverFrame.fn, resolverFrame.response,
                       resolverFrame.names, resolverFrame.query)
       IN  /\ r.how # "raise"
           /\ resolverFrame' = [resolverFrame EXCEPT !.pc = "returned",
                                                     !.result = r.id]
    /\ UNCHANGED resolverFrameOthers

\* lines 77-82, 154-159: a handler catches what the try block raised
LookupCatches ==
    /\ resolverFrame.pc = "called"
    /\ LET r == Lookup(resolverFrame.fn, resolverFrame.response,
                       resolverFrame.names, resolverFrame.query)
       IN  /\ r.how = "raise"
           /\ resolverFrame' =
                 [resolverFrame EXCEPT
                     !.pc = "returned", !.result = NoId,
                     !.caught = IF resolverFrame.response = "transport_error"
                                THEN "RequestException" ELSE "Exception"]
    /\ UNCHANGED resolverFrameOthers

\* one of the two lookups is called on a name, and the service answers
ResolverInit ==
    /\ \E fn \in {"get_exam_id", "get_location_id"}, r \in LookupResponses,
          q \in Queries, ns \in SeqsUpTo(Candidates, MaxCandidates) :
          /\ r # "ok" => ns = <<>>
          /\ resolverFrame = [pc |-> "called", fn |-> fn, response |-> r,
                              names |-> ns, query |-> q, result |-> NoId,
                              caught |-> "none"]
    /\ pc = "not_started"
    /\ session_key = EmptyVal
    /\ user_session_key = EmptyVal
    /\ aspnet_cookies = EmptyVal
    /\ auto_login_enabled = FALSE
    /\ poll_interval = PollInterval
    /\ poll_interval_jitter = 0
    /\ notifications_enabled = TRUE
    /\ slack_token = "xoxb-token"
    /\ slack_channel_id = "C123456"
    /\ stop_on_found = FALSE
    /\ login_attempted = FALSE
    /\ cookies = NoCookies
    /\ sleep_interval = NoSleep
    /\ healthy = FALSE
    /\ freshGen = NoGen
    /\ hdrs = <<>>
    /\ statuses = <<>>
    /\ loginCalls = 0
    /\ loginResult = "nocall"
    /\ sends = <<>>
    /\ posts = 0
    /\ outcome = "none"
    /\ body = NoBody
    /\ normalized = FALSE
    /\ startCreds = NoCookies
    /\ mainFrame = Running
    /\ sendFrame = NoSend
    /\ loginFrame = NoLoginCall
    /\ legacyFrame = NoLegacy

ResolverNext ==
    \/ LookupReturns
    \/ LookupCatches

ResolverSpec == ResolverInit /\ [][ResolverNext]_vars

\* ------------------------------- EasydoctAuthenticator.login (auth.py 95-233)
\* how a request of the login ends: a status, or an exception of requests
LoginPageOutcomes == {"200", "500", "Timeout", "RequestException"}
PostOutcomes == {"200", "302", "500", "Timeout", "RequestException"}
ExamPageOutcomes == {"200", "500", "Timeout", "RequestException"}
Raised == {"Timeout", "RequestException"}

\* the cookie jar of the session: each cookie is absent, empty or has a value
Jars == [SessionKey : {"absent", "empty", "value"},
         UserSessionKey : {"absent", "empty", "value"},
         AspNetCookies : {"absent", "empty", "value"}]

\* _is_logged_in (lines 182-198): both session cookies are in the jar
_is_logged_in(jar) == jar.SessionKey # "absent" /\ jar.AspNetCookies # "absent"

\* cookie_dict.get(name, default) (lines 209-213): the value of the cookie,
\* the default when the jar has no cookie of that name
cookie_dict_get(c, default) ==
    IF c = "absent" THEN default ELSE IF c = "empty" THEN "" ELSE "value"

\* the three values read with an empty default for each of them
ExtractedFieldsNoDefault(jar) ==
    [session_key |-> cookie_dict_get(jar.SessionKey, ""),
     user_session_key |-> cookie_dict_get(jar.UserSessionKey, ""),
     aspnet_cookies |-> cookie_dict_get(jar.AspNetCookies, "")]

\* lines 211-219: the three values read from the jar, UserSessionKey taken
\* as N when the jar does not hold it
ExtractedFields(jar) ==
    [session_key |-> cookie_dict_get(jar.SessionKey, ""),
     user_session_key |-> cookie_dict_get(jar.UserSessionKey, "N"),
     aspnet_cookies |-> cookie_dict_get(jar.AspNetCookies, "")]

\* _extract_cookies (lines 200-233): the three values pass is_valid
\* (lines 16-18: each of them is non-empty)
_extract_cookies(jar) ==
    /\ ExtractedFields(jar).session_key # ""
    /\ ExtractedFields(jar).user_session_key # ""
    /\ ExtractedFields(jar).aspnet_cookies # ""

\* what the login looked at leaves alone
loginFrameOthers == <<pc, credVars, configVars, envVars, login_attempted,
                      cookies, sleep_interval, hdrs, statuses, loginCalls,
                      loginResult, sends, posts, outcome, body, normalized,
                      startCreds, mainFrame, sendFrame, resolverFrame,
                      legacyFrame>>

\* the login gives None (an early return or one of the handlers, 170-180)
ReturnNone(f) == [f EXCEPT !.pc = "returned", !.result = "None"]

\* the GET of the login page is issued again after it failed
LoginPageFailsRetrying(o) ==
    /\ loginFrame.pc = "called"
    /\ o # "200"
    /\ loginFrame' = [loginFrame EXCEPT
                         !.requests = Append(@, "GET login"),
                         !.login_status = o]
    /\ UNCHANGED loginFrameOthers

\* lines 109-117, 170-180: the GET of the login page raises or is not a 200
LoginPageFails(o) ==
    /\ loginFrame.pc = "called"
    /\ o # "200"
    /\ loginFrame' = ReturnNone([loginFrame EXCEPT
                                    !.requests = Append(@, "GET login"),
                                    !.login_status = o])
    /\ UNCHANGED loginFrameOthers

\* lines 109-119: the login page is loaded
LoginPageLoaded ==
    /\ loginFrame.pc = "called"
    /\ loginFrame' = [loginFrame EXCEPT !.pc = "extract",
                                        !.requests = Append(@, "GET login"),
                                        !.login_status = "200"]
    /\ UNCHANGED loginFrameOthers

\* lines 122-124: the page does not carry the three ViewState fields
ViewStateMissing ==
    /\ loginFrame.pc = "extract"
    /\ loginFrame' = ReturnNone([loginFrame EXCEPT !.viewstate = "missing"])
    /\ UNCHANGED loginFrameOthers

\* lines 122-134: the fields are extracted and the form is prepared
ViewStateExtracted ==
    /\ loginFrame.pc = "extract"
    /\ loginFrame' = [loginFrame EXCEPT !.pc = "post", !.viewstate = "found"]
    /\ UNCHANGED loginFrameOthers

\* lines 139-149, 170-180: the POST raises or is neither a 200 nor a 302
PostFails(o) ==
    /\ loginFrame.pc = "post"
    /\ o \notin {"200", "302"}
    /\ loginFrame' = ReturnNone([loginFrame EXCEPT
                                    !.requests = Append(@, "POST login"),
                                    !.post_status = o])
    /\ UNCHANGED loginFrameOthers

\* lines 139-151: the POST is answered; the server has set what it sets
PostAnswered(o, jar) ==
    /\ loginFrame.pc = "post"
    /\ o \in {"200", "302"}
    /\ loginFrame' = [loginFrame EXCEPT !.pc = "exam",
                                        !.requests = Append(@, "POST login"),
                                        !.post_status = o,
                                        !.jar = jar]
    /\ UNCHANGED loginFrameOthers

\* lines 156-160, 170-180: the GET of the exam page raises
ExamPageRaises(o) ==
    /\ loginFrame.pc = "exam"
    /\ o \in Raised
    /\ loginFrame' = ReturnNone([loginFrame EXCEPT
                                    !.requests = Append(@, "GET exam"),
                                    !.exam_status = o])
    /\ UNCHANGED loginFrameOthers

\* lines 156-160: the GET of the exam page is answered, with whatever status
ExamPageAnswered(o, jar) ==
    /\ loginFrame.pc = "exam"
    /\ o \notin Raised
    /\ loginFrame' = [loginFrame EXCEPT !.pc = "verify",
                                        !.requests = Append(@, "GET exam"),
                                        !.exam_status = o,
                                        !.jar = jar]
    /\ UNCHANGED loginFrameOthers

\* lines 163-168, 200-233: the cookies are missing or not all usable
VerifyFails ==
    /\ loginFrame.pc = "verify"
    /\ ~(_is_logged_in(loginFrame.jar) /\ _extract_cookies(loginFrame.jar))
    /\ loginFrame' = ReturnNone(loginFrame)
    /\ UNCHANGED loginFrameOthers

\* lines 163-165, 200-226: the SessionCookies object is returned
VerifyReturns ==
    /\ loginFrame.pc = "verify"
    /\ _is_logged_in(loginFrame.jar)
    /\ _extract_cookies(loginFrame.jar)
    /\ loginFrame' = [loginFrame EXCEPT
                         !.pc = "returned",
                         !.result = "SessionCookies",
                         !.fields = ExtractedFields(loginFrame.jar)]
    /\ UNCHANGED loginFrameOthers

\* login is called once on a new authenticator (lines 26-29, 95-105)
LoginInit ==
    /\ loginFrame = [NoLoginCall EXCEPT !.pc = "called"]
    /\ pc = "not_started"
    /\ session_key = EmptyVal
    /\ user_session_key = EmptyVal
    /\ aspnet_cookies = EmptyVal
    /\ auto_login_enabled = TRUE
    /\ poll_interval = PollInterval
    /\ poll_interval_jitter = 0
    /\ notifications_enabled = TRUE
    /\ slack_token = "xoxb-token"
    /\ slack_channel_id = "C123456"
    /\ stop_on_found = FALSE
    /\ login_attempted = FALSE
    /\ cookies = NoCookies
    /\ sleep_interval = NoSleep
    /\ healthy = FALSE
    /\ freshGen = NoGen
    /\ hdrs = <<>>
    /\ statuses = <<>>
    /\ loginCalls = 0
    /\ loginResult = "nocall"
    /\ sends = <<>>
    /\ posts = 0
    /\ outcome = "none"
    /\ body = NoBody
    /\ normalized = FALSE
    /\ startCreds = NoCookies
    /\ mainFrame = Running
    /\ sendFrame = NoSend
    /\ resolverFrame = NoLookup
    /\ legacyFrame = NoLegacy

LoginNext ==
    \/ \E o \in LoginPageOutcomes : LoginPageFails(o)
    \/ LoginPageLoaded
    \/ ViewStateMissing
    \/ ViewStateExtracted
    \/ \E o \in PostOutcomes : PostFails(o)
    \/ \E o \in PostOutcomes, jar \in Jars : PostAnswered(o, jar)
    \/ \E o \in ExamPageOutcomes : ExamPageRaises(o)
    \/ \E o \in ExamPageOutcomes, jar \in Jars : ExamPageAnswered(o, jar)
    \/ VerifyFails
    \/ VerifyReturns

LoginSpec == LoginInit /\ [][LoginNext]_vars

\* --------------------------- the legacy variant (src/IRMslots.py 134-191)
\* bodies as the legacy check reads them: availabilityCount and, for the
\* log, availabilityLines
LegacyBodies == {b \in Bodies : b.appts.t = "absent"}

\* lines 148-172 on the body of a 200 response: the count is compared with
\* zero as it comes, and the lines are iterated before send is called
LegacyOutcome(b) ==
    IF b.kind # "object" THEN "Error"
    ELSE IF b.ac.t \in {"null", "str"} THEN "Error"
    ELSE IF b.ac.t = "int" /\ b.ac.v > 0
         THEN IF b.lines.t = "null" THEN "Error" ELSE "Found"
    ELSE "NotFound"

\* what the legacy loop leaves alone
legacyFrameOthers == <<pc, credVars, configVars, envVars, login_attempted,
                       cookies, sleep_interval, hdrs, statuses, loginCalls,
                       loginResult, sends, posts, outcome, body, normalized,
                       startCreds, mainFrame, sendFrame, resolverFrame, loginFrame>>

\* lines 181-182, 137-142: the loop calls check_availability, which posts
LegacyRequest ==
    /\ legacyFrame.pc = "tick"
    /\ legacyFrame.cycles < MaxCycles
    /\ legacyFrame' = [legacyFrame EXCEPT !.pc = "request", !.cycles = @ + 1,
                                          !.status = TransportError,
                                          !.body = NoBody, !.outcome = "none",
                                          !.sleep_interval = NoSleep]
    /\ UNCHANGED legacyFrameOthers

\* lines 167-169: the request raises RequestException
LegacyTransportError ==
    /\ legacyFrame.pc = "request"
    /\ legacyFrame' = [legacyFrame EXCEPT !.pc = "done", !.outcome = "Error"]
    /\ UNCHANGED legacyFrameOthers

\* lines 144-146: the response is not a 200
LegacyHttpError(st) ==
    /\ legacyFrame.pc = "request"
    /\ st # 200
    /\ legacyFrame' = [legacyFrame EXCEPT !.pc = "done", !.status = st,
                                          !.outcome = "Error"]
    /\ UNCHANGED legacyFrameOthers

\* lines 148-172: the response is a 200 with body b
LegacyOk(b) ==
    /\ legacyFrame.pc = "request"
    /\ legacyFrame' =
          [legacyFrame EXCEPT
              !.pc = "done", !.status = 200, !.body = b,
              !.outcome = LegacyOutcome(b),
              !.sends = IF LegacyOutcome(b) = "Found" THEN @ + 1 ELSE @]
    /\ UNCHANGED legacyFrameOthers

\* lines 181-183: check_availability returned True, the loop is left
LegacyBreak ==
    /\ legacyFrame.pc = "done"
    /\ legacyFrame.outcome = "Found"
    /\ legacyFrame' = [legacyFrame EXCEPT !.pc = "returned"]
    /\ UNCHANGED legacyFrameOthers

\* the sleep taken whatever check_availability returned
LegacySleepAfterAnyOutcome ==
    /\ legacyFrame.pc = "done"
    /\ legacyFrame' = [legacyFrame EXCEPT !.pc = "sleep", !.sleeps = @ + 1,
                                          !.sleep_interval = poll_interval]
    /\ UNCHANGED legacyFrameOthers

\* lines 181, 185: check_availability returned False, time.sleep is entered
LegacySleep ==
    /\ legacyFrame.pc = "done"
    /\ legacyFrame.outcome # "Found"
    /\ legacyFrame' = [legacyFrame EXCEPT !.pc = "sleep", !.sleeps = @ + 1,
                                          !.sleep_interval = poll_interval]
    /\ UNCHANGED legacyFrameOthers

\* line 185 returns: back to the top of the while loop
LegacyWake ==
    /\ legacyFrame.pc = "sleep"
    /\ legacyFrame' = [legacyFrame EXCEPT !.pc = "tick"]
    /\ UNCHANGED legacyFrameOthers

\* lines 187-188: KeyboardInterrupt ends run()
LegacyInterrupt ==
    /\ legacyFrame.pc \in {"tick", "request", "done", "sleep"}
    /\ legacyFrame' = [legacyFrame EXCEPT !.pc = "returned", !.interrupted = TRUE]
    /\ UNCHANGED legacyFrameOthers

\* the legacy checker is constructed and run() is entered (lines 125-132, 174-180)
LegacyInit ==
    /\ legacyFrame = [NoLegacy EXCEPT !.pc = "tick"]
    /\ pc = "not_started"
    /\ session_key = SessionCookies(0).session_key
    /\ user_session_key = SessionCookies(0).user_session_key
    /\ aspnet_cookies = SessionCookies(0).aspnet_cookies
    /\ auto_login_enabled = FALSE
    /\ poll_interval = PollInterval
    /\ poll_interval_jitter = 0
    /\ notifications_enabled = TRUE
    /\ slack_token = "xoxb-token"
    /\ slack_channel_id = "C123456"
    /\ stop_on_found = FALSE
    /\ login_attempted = FALSE
    /\ cookies = NoCookies
    /\ sleep_interval = NoSleep
    /\ healthy = FALSE
    /\ freshGen = NoGen
    /\ hdrs = <<>>
    /\ statuses = <<>>
    /\ loginCalls = 0
    /\ loginResult = "nocall"
    /\ sends = <<>>
    /\ posts = 0
    /\ outcome = "none"
    /\ body = NoBody
    /\ normalized = FALSE
    /\ startCreds = NoCookies
    /\ mainFrame = Running
    /\ sendFrame = NoSend
    /\ resolverFrame = NoLookup
    /\ loginFrame = NoLoginCall

LegacyNext ==
    \/ LegacyRequest
    \/ LegacyTransportError
    \/ \E st \in Statuses : LegacyHttpError(st)
    \/ \E b \in LegacyBodies : LegacyOk(b)
    \/ LegacyBreak
    \/ LegacySleep
    \/ LegacyWake
    \/ LegacyInterrupt

LegacySpec == LegacyInit /\ [][LegacyNext]_vars

\* ------------------- the slot block of the message (notifications.py 91-148)
\* max_slots as _send_slack passes it (line 197)
MaxSlots == 20

\* the entries of a list that are objects (every object entry of the model
\* has at least one key)
RECURSIVE DictEntries(_)
DictEntries(l) ==
    IF l = <<>> THEN <<>>
    ELSE IF Head(l).dict THEN <<Head(l)>> \o DictEntries(Tail(l))
    ELSE DictEntries(Tail(l))

\* the object entries of all the appointments lists of the nested lines
RECURSIVE NestedEntries(_)
NestedEntries(ls) ==
    IF ls = <<>> THEN <<>>
    ELSE DictEntries(Head(ls)) \o NestedEntries(Tail(ls))

\* _flatten_appointments_from_response (lines 91-115): the object entries of
\* the flat list if there are any, else those of the nested lines
_flatten_appointments_from_response(data) ==
    IF data.appts.t = "list" /\ DictEntries(data.appts.l) # <<>>
    THEN DictEntries(data.appts.l)
    ELSE IF data.lines.t = "nested" THEN NestedEntries(data.lines.nested)
    ELSE <<>>

\* _format_slot_list (lines 117-148): one line for each of the first
\* max_slots entries that carry dayAbbr and startTime
RECURSIVE _format_slot_list(_, _)
_format_slot_list(appointments, max_slots) ==
    IF appointments = <<>> \/ max_slots = 0 THEN <<>>
    ELSE LET appt == Head(appointments)
         IN  IF appt.dayAbbr # "" /\ appt.startTime # ""
             THEN <<appt.dayAbbr \o " " \o appt.startTime>>
                     \o _format_slot_list(Tail(appointments), max_slots - 1)
             ELSE _format_slot_list(Tail(appointments), max_slots)

\* lines 162, 196-197: the slots listed in the message built from data
ListedSlots(data) ==
    _format_slot_list(_flatten_appointments_from_response(data), MaxSlots)

\* ----------------------------------------------------------------- claims
\* check_availability has returned
CycleEnded == pc = "done"

\* C1: in a cycle whose first and retried requests both come back 401/403,
\* the login was called exactly once, two requests were issued and no more,
\* and the cycle has ended as Error.
C1_TwoAuthErrorsEndInError ==
    /\ Len(hdrs) <= 2
    /\ (Len(statuses) = 2 /\ statuses[1] \in {401, 403} /\ statuses[2] \in {401, 403})
          => /\ loginCalls = 1
             /\ Len(hdrs) = 2
             /\ CycleEnded
             /\ outcome = "Error"

C1_Witness ==
    pc = "done" /\ statuses = <<401, 403>> /\ loginCalls = 1

\* C2: whenever a cycle starts (its first request is in flight) the
\* re-login flag is false, whatever the earlier cycles did.
C2_FlagFalseAtCycleStart ==
    pc = "req1" => ~login_attempted

\* C3: once login succeeds and fresh credentials are answered 200 for good,
\* a later cycle ends Found or NotFound (unless run() is ended first).
C3_RecoversAfterErrors ==
    [](healthy /\ auto_login_enabled
         => <>(pc \in {"stopped", "crashed"}
               \/ (pc = "done" /\ outcome \in {"Found", "NotFound"})))

\* C4: a cycle whose 200 body normalises to a count above zero calls
\* NotificationService.send exactly once, with the message that spells
\* out that count, and returns Found.
C4_FoundSendsOnce ==
    /\ Len(sends) <= 1
    /\ (pc = "done" /\ body # NoBody /\ ~Normalize(body).raised
            /\ Normalize(body).count > 0)
          => /\ Len(sends) = 1
             /\ sends[1].message = "Found " \o ToString(Normalize(body).count)
                                      \o " available appointment slot(s)!"
             /\ outcome = "Found"

C4_Witness ==
    /\ pc = "done" /\ outcome = "Found" /\ Len(sends) = 1
    /\ body.ac = [t |-> "int", v |-> 2]
    /\ sends[1].message = "Found 2 available appointment slot(s)!"

\* C5: a cycle whose 200 body normalises to a count of zero never calls
\* NotificationService.send and returns NotFound.
C5_NoSlotsNoSend ==
    (pc = "done" /\ body # NoBody /\ ~Normalize(body).raised
        /\ Normalize(body).count = 0)
      => (sends = <<>> /\ outcome = "NotFound")

C5_Witness ==
    /\ pc = "done" /\ outcome = "NotFound" /\ sends = <<>>
    /\ body.ac = [t |-> "int", v |-> 0]
    /\ body.appts = [t |-> "list", l |-> <<>>]

\* C6: when a cycle issued a retried request, its first request carried the
\* Credential Set the cycle began with and the retried request carries the
\* three fields of the set the login returned, none of them an old field.
C6_RetryCarriesNewSet ==
    Len(hdrs) = 2 =>
        /\ hdrs[1] = HeaderOf(startCreds)
        /\ loginResult = "valid"
        /\ hdrs[2].SessionKey = cookies.session_key
        /\ hdrs[2].UserSessionKey = cookies.user_session_key
        /\ hdrs[2].AspNetCookies = cookies.aspnet_cookies
        /\ hdrs[2].SessionKey # hdrs[1].SessionKey
        /\ hdrs[2].UserSessionKey # hdrs[1].UserSessionKey
        /\ hdrs[2].AspNetCookies # hdrs[1].AspNetCookies

C6_Witness ==
    pc = "req2" /\ Len(hdrs) = 2 /\ hdrs[2] = HeaderOf(SessionCookies(1))

\* C7: every request header built, in any cycle and after any number of
\* re-logins, carries the three fields of one and the same Credential Set.
C7_HeaderFromOneSet ==
    \A i \in 1..Len(hdrs) : \E g \in Gens : hdrs[i] = HeaderOf(SessionCookies(g))

\* a later cycle builds its header from a set that replaced a replaced set
C7_Witness ==
    /\ pc = "req1"
    /\ hdrs = <<HeaderOf(SessionCookies(0))>>
    /\ startCreds = SessionCookies(0)
    /\ freshGen = 0

\* C8: a transport failure of a request ends the cycle as Error by a normal
\* return: nothing is requested after it, the body is not read and send is
\* not called; when it is the first request that fails, no login is called
\* and no retry is issued.
C8_TransportErrorEndsCycle ==
    /\ (Len(statuses) >= 1 /\ statuses[Len(statuses)] = TransportError)
          => /\ CycleEnded
             /\ outcome = "Error"
             /\ Len(hdrs) = Len(statuses)
             /\ sends = <<>>
             /\ ~normalized
    /\ (Len(statuses) >= 1 /\ statuses[1] = TransportError)
          => (loginCalls = 0 /\ Len(hdrs) = 1 /\ Len(statuses) = 1)

C8_Witness ==
    pc = "done" /\ statuses = <<TransportError>> /\ outcome = "Error"

\* C9: when the re-login returns nothing, raises, or returns an invalid set,
\* the cycle ends as Error with no retried request, no send, and the
\* Credential Set as it was when the cycle began.
C9_FailedLoginEndsCycle ==
    loginResult \in {"None", "raise", "invalid"} =>
        /\ CycleEnded
        /\ outcome = "Error"
        /\ loginCalls = 1
        /\ Len(hdrs) = 1
        /\ sends = <<>>
        /\ CurrentCreds = startCreds

C9_Witness ==
    pc = "done" /\ loginResult = "invalid" /\ cookies = InvalidCookies(1)

\* C10: a first response other than 200/401/403, and a retried response
\* other than 200, ends the cycle as Error: the body is not read, that
\* response triggers no login and send is not called.
C10_OtherStatusEndsCycle ==
    /\ (Len(statuses) >= 1 /\ statuses[1] \notin {200, 401, 403, TransportError})
          => /\ CycleEnded
             /\ outcome = "Error"
             /\ loginCalls = 0
             /\ Len(hdrs) = 1
             /\ sends = <<>>
             /\ ~normalized
    /\ (Len(statuses) = 2 /\ statuses[2] \notin {200, TransportError})
          => /\ CycleEnded
             /\ outcome = "Error"
             /\ loginCalls = 1
             /\ Len(hdrs) = 2
             /\ sends = <<>>
             /\ ~normalized

C10_Witness ==
    pc = "done" /\ statuses = <<401, 204>> /\ outcome = "Error"

\* C11: with auto-login disabled a first response of 401/403 ends the cycle
\* as Error after exactly one request: no login is called, the Credential
\* Set is the one the cycle started with and send is not called.
C11_AuthErrorWithoutAutoLogin ==
    (~auto_login_enabled /\ Len(statuses) >= 1 /\ statuses[1] \in {401, 403})
        => /\ CycleEnded
           /\ outcome = "Error"
           /\ Len(hdrs) = 1
           /\ Len(statuses) = 1
           /\ loginCalls = 0
           /\ loginResult = "nocall"
           /\ CurrentCreds = startCreds
           /\ sends = <<>>

C11_Witness ==
    ~auto_login_enabled /\ pc = "done" /\ statuses = <<403>> /\ outcome = "Error"

\* C12: within a cycle each field of the Credential Set is written at most
\* once, and only by the assignments that directly follow a login that
\* returned a valid set; send is called at most once; a cycle whose login did
\* not succeed ends with the Credential Set it started with, a cycle whose
\* login succeeded ends with the set that login returned.
C12_OneWriteOneSend ==
    [][/\ session_key' # session_key
            => /\ pc = "assign_session_key"
               /\ loginResult = "valid"
               /\ session_key = startCreds.session_key
               /\ session_key' = cookies.session_key
       /\ user_session_key' # user_session_key
            => /\ pc = "assign_user_session_key"
               /\ loginResult = "valid"
               /\ user_session_key = startCreds.user_session_key
               /\ user_session_key' = cookies.user_session_key
       /\ aspnet_cookies' # aspnet_cookies
            => /\ pc = "assign_aspnet_cookies"
               /\ loginResult = "valid"
               /\ aspnet_cookies = startCreds.aspnet_cookies
               /\ aspnet_cookies' = cookies.aspnet_cookies
       /\ Len(sends') <= 1
       /\ pc' = "done"
            => /\ loginCalls' <= 1
               /\ loginResult' # "valid" => CurrentCreds' = startCreds'
               /\ loginResult' = "valid" => CurrentCreds' = cookies']_vars

C12_Witness ==
    /\ pc = "done"
    /\ loginResult = "valid"
    /\ CurrentCreds = cookies
    /\ CurrentCreds # startCreds
    /\ Len(sends) = 1

\* C13: a 200 body that carries only a flat appointments list is notified
\* with the "<day> <time>" strings of its object entries (dayAbbr else day,
\* startTime else start) in order, the count being the number of those
\* strings; with no such string nothing is notified.
C13_FlatListNormalized ==
    (/\ CycleEnded
     /\ normalized
     /\ body.kind = "object"
     /\ body.ac.t = "absent"
     /\ body.lines = NoLines
     /\ body.appts.t = "list")
        => LET sl == SlotLines(body.appts.l)
           IN  IF sl # <<>>
               THEN /\ outcome = "Found"
                    /\ sends = <<[message |-> Message(Len(sl)),
                                  data |-> [body EXCEPT
                                              !.ac = [t |-> "int", v |-> Len(sl)],
                                              !.lines = StringLines(sl)]]>>
               ELSE /\ outcome = "NotFound"
                    /\ sends = <<>>

\* C14: whenever the count and the slot descriptors are both derived from
\* the appointments list, the count handed to send is the number of slot
\* descriptors handed to send.
C14_CountIsNumberOfSlots ==
    (/\ CycleEnded
     /\ Len(sends) = 1
     /\ body.ac.t = "absent" \/ (body.ac.t = "int" /\ body.ac.v = 0)
     /\ LinesFalsy(body.lines))
        => /\ sends[1].data.ac.t = "int"
           /\ sends[1].data.ac.v = Len(sends[1].data.lines.strs)
           /\ sends[1].message = Message(Len(sends[1].data.lines.strs))

\* C15: a 200 body without availabilityCount, whose flat appointments list
\* is absent or has no usable entry and whose availabilityLines carry a
\* complete entry, ends the cycle as Found.
C15_NestedShapeFound ==
    (/\ CycleEnded
     /\ normalized
     /\ body.kind = "object"
     /\ body.ac.t = "absent"
     /\ body.appts.t = "absent" \/ (body.appts.t = "list" /\ SlotLines(body.appts.l) = <<>>)
     /\ body.lines.t = "nested"
     /\ \E i \in 1..Len(body.lines.nested) : SlotLines(body.lines.nested[i]) # <<>>)
        => /\ outcome = "Found"
           /\ Len(sends) = 1

C17_DisabledSendNeverCalled ==
    (CycleEnded /\ ~notifications_enabled /\ outcome = "Found")
        => /\ sends = <<>>
           /\ posts = 0

\* C17: with notifications disabled a cycle that finds slots ends Found;
\* send is called once, as in every Found cycle, and returns without
\* posting anything to Slack.
C17_DisabledSendPostsNothing ==
    /\ ~notifications_enabled => posts = 0
    /\ (/\ CycleEnded
        /\ ~notifications_enabled
        /\ normalized
        /\ ~Normalize(body).raised
        /\ Normalize(body).count > 0)
          => /\ outcome = "Found"
             /\ Len(sends) = 1
             /\ posts = 0

C17_Witness ==
    /\ pc = "done"
    /\ ~notifications_enabled
    /\ slack_token # ""
    /\ slack_channel_id # ""
    /\ outcome = "Found"
    /\ Len(sends) = 1
    /\ posts = 0

\* C18: when base >= jitter > 0 every duration drawn lies in
\* [base - jitter, base + jitter], and when jitter = 0 it is exactly base,
\* after every cycle outcome.
C18_SleepWithinJitterBand ==
    (sleep_interval # NoSleep /\ poll_interval >= poll_interval_jitter)
        => /\ poll_interval_jitter > 0
                => /\ sleep_interval >= poll_interval - poll_interval_jitter
                   /\ sleep_interval <= poll_interval + poll_interval_jitter
           /\ poll_interval_jitter = 0 => sleep_interval = poll_interval

C18_Witness ==
    /\ pc = "sleep"
    /\ poll_interval_jitter > 0
    /\ poll_interval >= poll_interval_jitter
    /\ sleep_interval = poll_interval + poll_interval_jitter
    /\ outcome = "Error"

\* C19: whatever the base interval and the jitter, the duration drawn is
\* never negative and lies in [max(0, base - jitter), base + jitter].
C19_SleepClampedAtZero ==
    sleep_interval # NoSleep
        => /\ sleep_interval >= 0
           /\ sleep_interval >= poll_interval - poll_interval_jitter
           /\ sleep_interval <= poll_interval + poll_interval_jitter

\* C20: once a cycle has returned an outcome, whatever it is, the loop goes
\* on: run() is not left by an exception.
C20_LoopSurvivesEveryOutcome ==
    outcome \in {"Found", "NotFound", "Error"} => pc # "crashed"

\* C21: run() is left only through the interrupt: it never ends by an
\* exception, whatever the cycle outcomes, the base interval and the jitter.
C21_LoopEndsOnlyOnInterrupt ==
    pc # "crashed"

\* C22: when the operator asks that a Found cycle ends the loop, a Found
\* cycle is the last thing run() does: it is not followed by a sleep.
C22_FoundPolicySelectable ==
    (stop_on_found /\ outcome = "Found") => pc \in {"done", "stopped"}

\* C23: a cycle starts only from the top of the loop, which is reached only
\* when the sleep that follows the previous cycle has returned, and with
\* nothing of a cycle pending; the login is entered at most once per cycle
\* and only from the first request of that cycle.
C23_CyclesSequential ==
    [][/\ (pc' = "req1" /\ pc # "req1")
            => /\ pc = "tick"
               /\ hdrs = <<>>
               /\ statuses = <<>>
               /\ loginCalls = 0
               /\ loginResult = "nocall"
               /\ sends = <<>>
       /\ (pc' = "tick" /\ pc # "tick") => pc = "sleep"
       /\ (pc' = "sleep" /\ pc # "sleep") => pc = "done"
       /\ (pc' = "login" /\ pc # "login")
            => /\ pc = "req1"
               /\ loginCalls = 0
               /\ loginCalls' = 1
       /\ loginCalls' <= 1]_vars

C23_Witness ==
    /\ pc = "login"
    /\ CurrentCreds = SessionCookies(1)
    /\ loginCalls = 1

\* C24: once the interrupt has been handled run() has returned: no cycle
\* starts and nothing else happens, whether the interrupt came during the
\* sleep or during a cycle.
C24_InterruptEndsLoop ==
    [][pc # "stopped"]_vars

C24_Witness ==
    /\ pc = "stopped"
    /\ sleep_interval # NoSleep
    /\ sleep_interval >= 0
    /\ outcome = "NotFound"

\* C25: when the configuration cannot be loaded (a required setting is
\* missing or malformed, or a name that has to be resolved is not) main()
\* never gets past Config.from_env, and when the initial login fails main()
\* exits; until run() is called no cycle is started and no availability
\* request is issued, and after the exit with status 1 nothing happens.
C25_StartupFailureExits ==
    /\ [](/\ ConfigError(mainFrame.env) => mainFrame.pc \in {"from_env", "exit1"}
          /\ loginResult \in {"None", "raise", "invalid"} => mainFrame.pc = "exit1"
          /\ mainFrame.pc # "running"
                => /\ pc = "not_started"
                   /\ hdrs = <<>>
                   /\ statuses = <<>>)
    /\ [][mainFrame.pc # "exit1"]_vars

C25_Witness ==
    /\ mainFrame.pc = "exit1"
    /\ loginResult = "None"
    /\ loginCalls = 1
    /\ pc = "not_started"

\* C26 as stated: with auto-login enabled the initial login is called
\* exactly when one of the three configured cookies is empty or is the
\* placeholder text of its setting.
C26_InitialLoginIffNoPlaceholder ==
    mainFrame.pc \in {"initial_login", "create_checker", "running"}
        => (loginCalls = 1
              <=> /\ auto_login_enabled
                  /\ \/ startCreds.session_key \in {EmptyVal, Placeholder("SessionKey")}
                     \/ startCreds.user_session_key \in {EmptyVal, Placeholder("UserSessionKey")}
                     \/ startCreds.aspnet_cookies \in {EmptyVal, Placeholder(".AspNet.Cookies")})

\* C26: with auto-login enabled the initial login is called exactly when
\* one of the three configured cookies is empty, or the session key or the
\* cookie blob is the placeholder text of its setting; the user session key
\* is only required to be non-empty.
C26_InitialLoginIffNotValid ==
    mainFrame.pc \in {"initial_login", "create_checker", "running"}
        => (loginCalls = 1
              <=> /\ auto_login_enabled
                  /\ \/ startCreds.session_key \in {EmptyVal, Placeholder("SessionKey")}
                     \/ startCreds.user_session_key = EmptyVal
                     \/ startCreds.aspnet_cookies \in {EmptyVal, Placeholder(".AspNet.Cookies")})

C26_Witness ==
    /\ mainFrame.pc = "initial_login"
    /\ loginCalls = 1
    /\ startCreds.session_key = CookieVal("SessionKey", 0)
    /\ startCreds.user_session_key = CookieVal("UserSessionKey", 0)
    /\ startCreds.aspnet_cookies = Placeholder(".AspNet.Cookies")

\* C27: no call of send ends with an exception: when chat_postMessage
\* answers ok=false or raises, send has returned after that one call, and
\* when building the message raises, send has returned without any call.
C27_SendNeverRaises ==
    /\ sendFrame.pc # "raised"
    /\ posts <= 1
    /\ sendFrame.slack # "none" => (sendFrame.pc = "returned" /\ posts = 1)
    /\ sendFrame.built = "raised" => (sendFrame.pc = "returned" /\ posts = 0)

C27_Witness ==
    /\ sendFrame.pc = "returned"
    /\ sendFrame.slack = "SlackApiError"
    /\ posts = 1

\* C28 as stated: a call of send that has returned has posted exactly once
\* when notifications are enabled and the token and the channel id are set,
\* and not at all otherwise.
C28_PostsIffConfigured ==
    sendFrame.pc = "returned"
        => posts = IF notifications_enabled /\ slack_token # "" /\ slack_channel_id # ""
                   THEN 1 ELSE 0

\* C28: a call of send that has returned has posted exactly once when
\* notifications are enabled, the token and the channel id are set and
\* building the message raised nothing, and not at all otherwise; a Slack
\* client exists exactly when a token is set.
C28_PostsIffConfiguredAndBuilt ==
    /\ sendFrame.pc # "none"
          => (sendFrame.slack_client = "client" <=> slack_token # "")
    /\ sendFrame.pc = "returned"
          => posts = IF /\ notifications_enabled
                        /\ slack_token # ""
                        /\ slack_channel_id # ""
                        /\ ~BuildFails(sendFrame.data)
                     THEN 1 ELSE 0

C28_Witness ==
    /\ sendFrame.pc = "returned"
    /\ notifications_enabled
    /\ slack_token = ""
    /\ slack_channel_id # ""
    /\ sendFrame.slack_client = "none"
    /\ posts = 0


\* the candidate the lookup is to return: the first whose name equals the
\* query ignoring case and surrounding whitespace, else the first whose name
\* contains it, else none
ExpectedId ==
    LET names == resolverFrame.names
        q == strip(lower(resolverFrame.query))
        Eq == {i \in 1..Len(names) :
                  names[i].has_name /\ strip(lower(names[i].name)) = q}
        Sub == {i \in 1..Len(names) :
                  names[i].has_name /\ Contains(q, lower(names[i].name))}
        First(S) == CHOOSE i \in S : \A j \in S : i <= j
    IN  IF Eq # {} THEN IdOf(First(Eq))
        ELSE IF Sub # {} THEN IdOf(First(Sub))
        ELSE NoId

\* C29 (as stated): a lookup never raises, and on a list of candidates it
\* returns the id of the first candidate whose name equals the query ignoring
\* case and surrounding whitespace, else the id of the first candidate, in
\* response order, whose name contains the query, else None.
C29_FirstExactElseFirstSubstring ==
    /\ resolverFrame.pc \in {"none", "called", "returned"}
    /\ (resolverFrame.pc = "returned" /\ resolverFrame.response = "ok")
          => resolverFrame.result = ExpectedId

\* C29 (amended): the same, for the lists whose candidates all carry a name;
\* a candidate without a name can only turn the result into None, and every
\* answer that is not a list of candidates gives None.
C29_FirstExactElseFirstSubstringWhenNamed ==
    /\ resolverFrame.pc \in {"none", "called", "returned"}
    /\ resolverFrame.pc = "returned"
          => /\ resolverFrame.response # "ok" => resolverFrame.result = NoId
             /\ (/\ resolverFrame.response = "ok"
                 /\ \A i \in 1..Len(resolverFrame.names) :
                       resolverFrame.names[i].has_name)
                   => resolverFrame.result = ExpectedId
             /\ resolverFrame.result \in {NoId, ExpectedId}
             /\ resolverFrame.caught # "none" => resolverFrame.result = NoId

\* an exact match that comes after a substring match is the one returned
C29_Witness ==
    /\ resolverFrame.pc = "returned"
    /\ resolverFrame.names = <<[has_name |-> TRUE, name |-> <<"x", "a", "b">>],
                               [has_name |-> TRUE, name |-> <<"A", "B", " ">>]>>
    /\ resolverFrame.query = <<" ", "A", "b">>
    /\ resolverFrame.result = IdOf(2)

\* the requests of one login, in the order the claim gives them
LoginRequestOrder == <<"GET login", "POST login", "GET exam">>

\* C30 (as stated): one login issues at most one GET of the login page, then
\* at most one POST, then at most one GET of the exam page, in that order; a
\* failure at any step, the exam page answering with an error status
\* included, gives None without a later request and without raising.
C30_SingleAttemptFailureGivesNone ==
    /\ loginFrame.pc # "raised"
    /\ loginFrame.requests = SubSeq(LoginRequestOrder, 1, Len(loginFrame.requests))
    /\ loginFrame.pc = "returned"
          => /\ loginFrame.login_status \notin {"none", "200"}
                   => loginFrame.result = "None" /\ Len(loginFrame.requests) = 1
             /\ loginFrame.viewstate = "missing"
                   => loginFrame.result = "None" /\ Len(loginFrame.requests) = 1
             /\ loginFrame.post_status \notin {"none", "200", "302"}
                   => loginFrame.result = "None" /\ Len(loginFrame.requests) = 2
             /\ loginFrame.exam_status \notin {"none", "200"}
                   => loginFrame.result = "None"

\* C30 (amended): the same, where the failure of the exam-page GET is an
\* exception; its status is not looked at, and the login returns the cookies
\* exactly when the first two steps passed, the exam-page GET returned and the
\* jar then holds usable session cookies.
C30_SingleAttemptFailureGivesNoneExamStatusIgnored ==
    /\ loginFrame.pc # "raised"
    /\ loginFrame.requests = SubSeq(LoginRequestOrder, 1, Len(loginFrame.requests))
    /\ loginFrame.pc = "returned"
          => /\ loginFrame.result \in {"None", "SessionCookies"}
             /\ loginFrame.login_status \notin {"none", "200"}
                   => loginFrame.result = "None" /\ Len(loginFrame.requests) = 1
             /\ loginFrame.viewstate = "missing"
                   => loginFrame.result = "None" /\ Len(loginFrame.requests) = 1
             /\ loginFrame.post_status \notin {"none", "200", "302"}
                   => loginFrame.result = "None" /\ Len(loginFrame.requests) = 2
             /\ loginFrame.exam_status \in Raised
                   => loginFrame.result = "None"
             /\ loginFrame.result = "SessionCookies"
                   <=> /\ loginFrame.requests = LoginRequestOrder
                       /\ loginFrame.exam_status \in {"200", "500"}
                       /\ loginFrame.jar.SessionKey = "value"
                       /\ loginFrame.jar.AspNetCookies = "value"
                       /\ loginFrame.jar.UserSessionKey # "empty"

\* the POST was refused: the login ended there with None
C30_Witness ==
    /\ loginFrame.pc = "returned"
    /\ loginFrame.post_status = "500"
    /\ loginFrame.requests = <<"GET login", "POST login">>
    /\ loginFrame.result = "None"

\* C38: login returns the SessionCookies only when its three requests were
\* made, the jar then holds a SessionKey and an .AspNet.Cookies cookie and the
\* three returned fields are non-empty; in every other case it returns None;
\* a jar without a UserSessionKey cookie does not fail the login, the field
\* is returned as N.
C38_CookiesOnlyWhenSessionHeld ==
    loginFrame.pc = "returned"
       => /\ loginFrame.result = "SessionCookies"
                => /\ loginFrame.requests = LoginRequestOrder
                   /\ loginFrame.jar.SessionKey # "absent"
                   /\ loginFrame.jar.AspNetCookies # "absent"
                   /\ loginFrame.fields.session_key \notin {"", "none"}
                   /\ loginFrame.fields.user_session_key \notin {"", "none"}
                   /\ loginFrame.fields.aspnet_cookies \notin {"", "none"}
          /\ loginFrame.result # "SessionCookies"
                => /\ loginFrame.result = "None"
                   /\ loginFrame.fields = NoLoginCall.fields
          /\ ( /\ loginFrame.requests = LoginRequestOrder
               /\ loginFrame.exam_status \notin Raised
               /\ loginFrame.jar.SessionKey = "value"
               /\ loginFrame.jar.AspNetCookies = "value"
               /\ loginFrame.jar.UserSessionKey = "absent" )
                => /\ loginFrame.result = "SessionCookies"
                   /\ loginFrame.fields.user_session_key = "N"

\* a login that ended with a jar without UserSessionKey returned the set
C38_Witness ==
    /\ loginFrame.pc = "returned"
    /\ loginFrame.result = "SessionCookies"
    /\ loginFrame.jar.UserSessionKey = "absent"
    /\ loginFrame.fields.user_session_key = "N"

\* C31: a cycle issues at most two availability requests, calls the login at
\* most once and notifies at most once, and, every pending network call
\* returning or timing out, a cycle that has started ends (or run() is
\* interrupted first).
C31_CycleTerminates ==
    /\ [](Len(hdrs) <= 2 /\ loginCalls <= 1 /\ Len(sends) <= 1)
    /\ (pc = "req1") ~> (pc \in {"done", "stopped"})

\* a cycle that used everything it may use: two requests, a login, a send
C31_Witness ==
    /\ pc = "done"
    /\ Len(hdrs) = 2
    /\ loginCalls = 1
    /\ Len(sends) = 1
    /\ outcome = "Found"

\* C32: within a cycle the login is called only once the first request has
\* come back 401 or 403, and the second request is issued only once that
\* login has returned a valid set and the Config holds it; a first response
\* of 200, of any other status, or none at all, is followed by no login and
\* no second request.
C32_LoginAfterAuthErrorRetryAfterLogin ==
    /\ (loginCalls > 0 \/ pc = "login")
          => (Len(statuses) >= 1 /\ statuses[1] \in {401, 403})
    /\ (Len(hdrs) = 2 \/ pc = "retry")
          => /\ statuses[1] \in {401, 403}
             /\ loginCalls = 1
             /\ loginResult = "valid"
             /\ is_valid(cookies)
             /\ CurrentCreds = cookies
    /\ (Len(statuses) >= 1 /\ statuses[1] \notin {401, 403})
          => /\ loginCalls = 0
             /\ loginResult = "nocall"
             /\ Len(hdrs) = 1
             /\ Len(statuses) = 1
             /\ CycleEnded

\* the retried request is in flight after a 401 and a login that succeeded
C32_Witness ==
    /\ pc = "req2"
    /\ statuses = <<401>>
    /\ loginResult = "valid"
    /\ Len(hdrs) = 2
    /\ hdrs[2] = HeaderOf(cookies)

\* C33: a Found cycle never ends the loop: it has notified once, the sleep
\* that follows it is drawn as after any other cycle, and run() is not left
\* after it otherwise than by the interrupt.
C33_FoundNeverEndsLoop ==
    /\ (pc = "done" /\ outcome = "Found") => Len(sends) = 1
    /\ (pc = "sleep" /\ outcome = "Found") => sleep_interval \in SleepChoices
    /\ outcome = "Found" => pc \in {"done", "sleep", "tick", "stopped"}

\* C34: in the legacy variant a cycle that returned Found is followed by the
\* end of run() and by nothing else: no sleep and no request; a cycle that
\* returned NotFound or Error is followed, unless run() is interrupted, by a
\* sleep of exactly poll_interval seconds and then by another cycle.
C34_LegacyStopsOnFirstFound ==
    [][/\ (legacyFrame.outcome = "Found" /\ legacyFrame.pc \in {"done", "returned"})
            => /\ legacyFrame'.pc = "returned"
               /\ legacyFrame'.cycles = legacyFrame.cycles
               /\ legacyFrame'.sleeps = legacyFrame.sleeps
               /\ legacyFrame'.sends = 1
       /\ (legacyFrame.pc = "done" /\ legacyFrame.outcome \in {"NotFound", "Error"}
             /\ ~legacyFrame'.interrupted)
            => /\ legacyFrame'.pc = "sleep"
               /\ legacyFrame'.sleep_interval = poll_interval
               /\ legacyFrame'.sleeps = legacyFrame.sleeps + 1
       /\ (legacyFrame.pc = "sleep" /\ ~legacyFrame'.interrupted)
            => legacyFrame'.pc = "tick"
       /\ legacyFrame.pc = "returned" => legacyFrame' = legacyFrame
      ]_vars

\* the second cycle found a slot after a first one that did not: the loop
\* has ended with one sleep taken and one notification sent
C34_Witness ==
    /\ legacyFrame.pc = "returned"
    /\ ~legacyFrame.interrupted
    /\ legacyFrame.outcome = "Found"
    /\ legacyFrame.cycles = 2
    /\ legacyFrame.sleeps = 1
    /\ legacyFrame.sends = 1

C36_ListedSlotsMatchCount ==
    (CycleEnded /\ outcome = "Found" /\ Len(sends) = 1)
        => LET count == Normalize(body).count
           IN  Len(ListedSlots(sends[1].data))
                   = IF count < MaxSlots THEN count ELSE MaxSlots

\* a setting the claim calls required is missing: one of the three that are
\* always required, both EXAM_ID and EXAM_NAME, a cookie setting in manual
\* mode, or the e-mail, the password or the exam URL in auto-login mode
MissingRequired(e) ==
    \/ ~e.required
    \/ ~e.exam_id /\ ~e.exam_name
    \/ ~e.auto /\ EmptyVal \in {e.session_key, e.user_session_key, e.aspnet_cookies}
    \/ e.auto /\ ~e.credentials

\* C37 (as stated): Config.from_env raises exactly when a required setting
\* of the mode is missing.
C37_RaisesIffRequiredMissing ==
    mainFrame.from_env # "pending"
        => (mainFrame.from_env = "raised" <=> MissingRequired(mainFrame.env))

\* C37 (amended): Config.from_env raises exactly when a required setting of
\* the mode is missing, an interval setting is not an integer, or a name
\* that has to be resolved is not resolved.
C37_RaisesIffMissingMalformedOrUnresolved ==
    mainFrame.from_env # "pending"
        => (mainFrame.from_env = "raised"
              <=> \/ MissingRequired(mainFrame.env)
                  \/ ~mainFrame.env.numeric
                  \/ /\ mainFrame.env.exam_name
                     /\ ~mainFrame.env.exam_id
                     /\ ~mainFrame.env.exam_resolves
                  \/ /\ mainFrame.env.location_name
                     /\ ~mainFrame.env.office_place_ids
                     /\ ~mainFrame.env.location_resolves)

\* auto-login mode with the credentials and with no cookie set at all: the
\* configuration is loaded
C37_Witness ==
    /\ mainFrame.from_env = "returned"
    /\ mainFrame.pc = "setup_logging"
    /\ mainFrame.env.auto
    /\ mainFrame.env.credentials
    /\ mainFrame.env.session_key = EmptyVal
    /\ mainFrame.env.user_session_key = EmptyVal
    /\ mainFrame.env.aspnet_cookies = EmptyVal
====
